---- MODULE Spec2Model ----
(***************************************************************************)
(* The VirtualMachine reconciler of vm-operator                            *)
(* (controllers/virtualmachine/virtualmachine_controller.go) as a state    *)
(* machine.                                                                *)
(*                                                                         *)
(* The model follows one VirtualMachine object through its reconcile       *)
(* passes in full, and the other reconcile workers as far as they touch    *)
(* what the workers share: the mutex and the counter of creates in flight. *)
(* The work queue hands a key to one worker at a time, so the passes of    *)
(* one VirtualMachine never overlap; the workers being interchangeable,    *)
(* the one that takes this VirtualMachine's requests is worker 1.  The     *)
(* other workers reconcile other VirtualMachines, whose objects are not    *)
(* modelled: their passes run the same steps from r.mutex.Lock() on.       *)
(***************************************************************************)
EXTENDS Integers, FiniteSets, Sequences, TLC

\* ------------------------------------------------------------------ bounds

\* ctx.MaxConcurrentReconciles, the number of reconcile workers.
MaxConcurrentReconciles == 2

\* lib.MaxConcurrentCreateVMsOnProvider(), a percentage of the workers.
CreatePercent == 50

Workers == 1 .. MaxConcurrentReconciles

\* The worker that takes the requests of the VirtualMachine followed.
VMWorker == 1

\* ------------------------------------------------------- program constants

\* 10 * time.Second, in seconds.
RequeueSeconds == 10

finalizerName == "virtualmachine.vmoperator.vmware.com"

\* vmopv1alpha1 phases; "" is the unset phase.
Unset == ""
Creating == "Creating"
Created == "Created"
Deleting == "Deleting"
Deleted == "Deleted"
Phases == {Unset, Creating, Created, Deleting, Deleted}

\* ------------------------------------------------------------------- state

VARIABLES
  store,     \* the VirtualMachine object as the API server holds it
  provider,  \* the VM exists on the provider
  pc,        \* pc[w]: where the pass of worker w stands ("idle": none)
  ctx,       \* ctx[w]: the VirtualMachineContext of the pass of worker w
  mutex,     \* Reconciler.mutex: 0 when free, else the worker holding it
  NumVMsBeingCreatedOnProvider,
  MaxConcurrentCreateVMsOnProvider,
  config,    \* what the Reconciler was constructed from: numReconcilers
             \* and lib.MaxConcurrentCreateVMsOnProvider(), the percentage
  last,      \* what the VM's pass did and returned, in the state its
             \* return leads to; NoLast in every other state
  cluster,   \* the objects the watch mappers read from the API server
  requests,  \* the event a watch mapper was called for and the reconcile
             \* requests it returned, until the work queue has them
  svc,       \* what the VirtualMachineService reconciler reads and writes:
             \* the VirtualMachineService, the VMs it selects, its Service
             \* and Endpoints, and whether its load balancer was ensured
  svcLast    \* what the VirtualMachineService's pass did and returned, in
             \* the state its return leads to

vars == <<store, provider, pc, ctx, mutex, NumVMsBeingCreatedOnProvider,
          MaxConcurrentCreateVMsOnProvider, config, last, cluster, requests,
          svc, svcLast>>

\* What the VirtualMachine reconciler and its watch mappers leave alone.
Services == <<svc, svcLast>>

\* What the passes of the VirtualMachine reconciler leave alone.
Outside == <<config, cluster, requests, Services>>

\* What a watch mapper leaves alone.
Reconcilers ==
  <<store, provider, pc, ctx, mutex, NumVMsBeingCreatedOnProvider,
    MaxConcurrentCreateVMsOnProvider, config, last>>

\* A VirtualMachine as first created by a client: no finalizer, no status.
\* prereqs is the status of the PrereqsReady condition; isVolumes counts the
\* instance storage volumes of spec.volumes; pvcsBound is the annotation
\* constants.InstanceStoragePVCsBoundAnnotationKey.
NewVM ==
  [present |-> TRUE, deletionTimestamp |-> FALSE, pause |-> FALSE,
   finalizers |-> {}, phase |-> Unset, prereqs |-> "unset",
   poweredOn |-> FALSE, vmIp |-> FALSE,
   isVolumes |-> 0, pvcsBound |-> FALSE]

\* The fields a pass accumulates.  vm is the object being mutated, before
\* the object as loaded (what the patch helper diffs against); calls are the
\* provider calls made, events the events emitted, prober the call made to
\* the prober manager, marked and reason what conditions.Mark* was last
\* called with, delete what the provider delete call answered, slot whether
\* the pass took a creation slot, deferred whether it found none.
NoCtx ==
  [vm |-> NewVM, before |-> NewVM, calls |-> {}, events |-> {},
   prober |-> "none", marked |-> "none", reason |-> "", err |-> "nil",
   delete |-> "none", slot |-> FALSE, deferred |-> FALSE,
   rpDeleting |-> FALSE, fssInstanceStorage |-> FALSE]

NewCtx(obj) == [NoCtx EXCEPT !.vm = obj, !.before = obj]

\* The fields of the object a pass left different from what it loaded.
Changed(c) ==
  {f \in {"finalizers", "phase", "prereqs", "poweredOn", "vmIp",
          "isVolumes"} : c.vm[f] # c.before[f]}

NoLast ==
  [kind |-> "none", before |-> NewVM, vm |-> NewVM, changed |-> {},
   calls |-> {}, events |-> {}, prober |-> "none", marked |-> "none",
   reason |-> "", delete |-> "none", slot |-> FALSE, deferred |-> FALSE,
   fssInstanceStorage |-> FALSE,
   err |-> "nil", patch |-> "none", reterr |-> "nil", requeueAfter |-> 0]

\* An API server without the objects the watch mappers read, and no
\* mapper called.
NoCluster ==
  [vms |-> <<>>, images |-> <<>>, contentSources |-> <<>>,
   clProviders |-> <<>>]

NoRequests ==
  [kind |-> "none", binding |-> [ns |-> "", ref |-> ""], fails |-> "none",
   out |-> <<>>]

\* The Endpoints object as stored: present or not, and its subsets.
NoEndpoints == [present |-> FALSE, subsets |-> <<>>]

\* The native Service as stored; lastApplied is the configuration of the
\* VirtualMachineService it was last written from.
NoService ==
  [present |-> FALSE, type |-> "", ports |-> <<>>, ingress |-> <<>>,
   lastApplied |-> [type |-> "", ports |-> <<>>]]

NoVMService ==
  [present |-> FALSE, name |-> "", deleting |-> FALSE, finalizers |-> {},
   type |-> "", ports |-> <<>>, ingress |-> <<>>]

NoSvc ==
  [vmService |-> NoVMService, vms |-> <<>>, service |-> NoService,
   endpoints |-> NoEndpoints, loadBalancer |-> FALSE]

NoServiceLast == [kind |-> "none"]

\* math.Ceil(numReconcilers * percent / 100) on integers.
CeilDiv(a, b) == (a + b - 1) \div b

\* NewReconciler without math.Ceil: the conversion to int truncates.
NewReconcilerTruncates(numReconcilers, percent) ==
  (numReconcilers * percent) \div 100

NewReconciler(numReconcilers, percent) ==
  CeilDiv(numReconcilers * percent, 100)

Init ==
  /\ store = NewVM
  /\ provider = FALSE
  /\ pc = [w \in Workers |-> "idle"]
  /\ ctx = [w \in Workers |-> NoCtx]
  /\ mutex = 0
  /\ NumVMsBeingCreatedOnProvider = 0
  /\ config = [numReconcilers |-> MaxConcurrentReconciles,
               percent |-> CreatePercent]
  /\ MaxConcurrentCreateVMsOnProvider =
       NewReconciler(MaxConcurrentReconciles, CreatePercent)
  /\ last = NoLast
  /\ cluster = NoCluster
  /\ requests = NoRequests
  /\ svc = NoSvc
  /\ svcLast = NoServiceLast

\* ------------------------------------------------- controllerutil helpers

ContainsFinalizer(obj, f) == f \in obj.finalizers

AddFinalizer(obj, f) == [obj EXCEPT !.finalizers = @ \cup {f}]

RemoveFinalizer(obj, f) == [obj EXCEPT !.finalizers = @ \ {f}]

\* ------------------------------------------------------------ delete path

\* What VMProvider.DeleteVirtualMachine answers: an error, or NotFound for
\* a VM the provider does not have, or success.
DeleteOutcomes == {"ok", "notfound", "err"}

DeleteAnswer(exists, fails) ==
  IF fails THEN "err" ELSE IF exists THEN "ok" ELSE "notfound"

\* deleteVM: the provider call, NotFound turned into success, and the
\* deferred Delete event.
\* deleteVM without the NotFound test of line 297.
deleteVMNotFoundIsError(c, out) ==
  [c EXCEPT !.calls = @ \cup {"delete"}, !.delete = out,
            !.events = @ \cup {"Delete"},
            !.err = IF out = "ok" THEN "nil" ELSE "delete"]

deleteVM(c, out) ==
  [c EXCEPT !.calls = @ \cup {"delete"},
            !.delete = out,
            !.events = @ \cup {"Delete"},
            !.err = IF out = "err" THEN "delete" ELSE "nil"]

\* ReconcileDelete without the ContainsFinalizer test of line 316.
ReconcileDeleteWithoutFinalizerTest(c, out) ==
  LET c2 == deleteVM([c EXCEPT !.vm.phase = Deleting], out)
  IN IF c2.err # "nil"
     THEN c2
     ELSE [c2 EXCEPT !.vm = RemoveFinalizer([@ EXCEPT !.phase = Deleted],
                                            finalizerName),
                     !.prober = "remove"]

\* ReconcileDelete without the RemoveFinalizer call of line 324.
ReconcileDeleteKeepsFinalizer(c, out) ==
  IF ContainsFinalizer(c.vm, finalizerName)
  THEN LET c2 == deleteVM([c EXCEPT !.vm.phase = Deleting], out)
       IN IF c2.err # "nil" THEN c2
          ELSE [c2 EXCEPT !.vm.phase = Deleted, !.prober = "remove"]
  ELSE [c EXCEPT !.prober = "remove"]

\* ReconcileDelete with the prober removal of line 330 deferred: it runs
\* on the error return too.
ReconcileDeleteAlwaysDeregisters(c, out) ==
  IF ContainsFinalizer(c.vm, finalizerName)
  THEN LET c2 == deleteVM([c EXCEPT !.vm.phase = Deleting], out)
       IN IF c2.err # "nil" THEN [c2 EXCEPT !.prober = "remove"]
          ELSE [c2 EXCEPT
                  !.vm = RemoveFinalizer([@ EXCEPT !.phase = Deleted],
                                         finalizerName),
                  !.prober = "remove"]
  ELSE [c EXCEPT !.prober = "remove"]

\* ReconcileDelete without the return at line 320: the finalizer is removed
\* whatever the provider answered.
ReconcileDeleteIgnoresError(c, out) ==
  IF ContainsFinalizer(c.vm, finalizerName)
  THEN LET c2 == deleteVM([c EXCEPT !.vm.phase = Deleting], out)
       IN [c2 EXCEPT
             !.vm = RemoveFinalizer([@ EXCEPT !.phase = Deleted], finalizerName),
             !.prober = "remove"]
  ELSE [c EXCEPT !.prober = "remove"]

ReconcileDelete(c, out) ==
  IF ContainsFinalizer(c.vm, finalizerName)
  THEN LET c1 == [c EXCEPT !.vm.phase = Deleting]
           c2 == deleteVM(c1, out)
       IN IF c2.err # "nil"
          THEN c2
          ELSE [c2 EXCEPT !.vm = RemoveFinalizer([@ EXCEPT !.phase = Deleted],
                                                 finalizerName),
                          !.prober = "remove"]
  ELSE [c EXCEPT !.prober = "remove"]

\* ----------------------------------------------------------- requeueDelay

\* requeueDelay without the case of lines 282-284.
requeueDelayIgnoresPoweredOn(c) ==
  IF c.vm.phase = Creating THEN RequeueSeconds ELSE 0

\* requeueDelay without the Creating case of lines 278-280.
requeueDelayIgnoresCreating(c) ==
  IF ~c.vm.vmIp /\ c.vm.poweredOn THEN RequeueSeconds ELSE 0

requeueDelay(c) ==
  IF c.vm.phase = Creating
  THEN RequeueSeconds
  ELSE IF ~c.vm.vmIp /\ c.vm.poweredOn
       THEN RequeueSeconds
       ELSE 0

\* ------------------------------------------------------------ patch helper

\* patchHelper.Patch: the fields the pass changed, written onto the stored
\* object; a failed patch writes nothing.
Patch(obj, before, after) ==
  [obj EXCEPT
     !.finalizers = IF after.finalizers # before.finalizers
                    THEN after.finalizers ELSE @,
     !.phase = IF after.phase # before.phase THEN after.phase ELSE @,
     !.prereqs = IF after.prereqs # before.prereqs THEN after.prereqs ELSE @,
     !.poweredOn = IF after.poweredOn # before.poweredOn
                   THEN after.poweredOn ELSE @,
     !.vmIp = IF after.vmIp # before.vmIp THEN after.vmIp ELSE @,
     !.isVolumes = IF after.isVolumes # before.isVolumes
                   THEN after.isVolumes ELSE @]

PatchOutcomes == {"ok", "fail"}

\* ---------------------------------------------------- dependency resolver

\* The namespace of the VirtualMachines and the names their specs use.
VMNamespace == "ns1"
ClassName == "class1"
ContentSourceName == "cs1"

\* The error returned without the conditions.MarkFalse call before it.
ReturnsUnmarked(c, reason, err) == [c EXCEPT !.err = err]

\* conditions.MarkFalse / MarkTrue on VirtualMachinePrereqReadyCondition.
MarkFalse(c, reason, err) ==
  [c EXCEPT !.vm.prereqs = "False", !.marked = "False", !.reason = reason,
            !.err = err]

MarkTrue(c) == [c EXCEPT !.vm.prereqs = "True", !.marked = "True"]

\* Fail with a conditions.MarkFalse call ahead of the return.
FailMarksFalse(c, err) ==
  [c EXCEPT !.vm.prereqs = "False", !.marked = "False",
            !.reason = "PrereqsNotReady", !.err = err]

Fail(c, err) == [c EXCEPT !.err = err]

\* The list without client.InNamespace: the bindings of every namespace.
ListAllNamespaces(items, ns) == items

\* client.List(..., client.InNamespace(ns)).
ListInNamespace(items, ns) == {b \in items : b.ns = ns}

getVMClass(c, env) ==
  IF env.classErr
  THEN MarkFalse(c, "VirtualMachineClassNotFound", "getClass")
  ELSE IF env.fssVMService
       THEN IF env.classBindingsErr
            THEN MarkFalse(c, "VirtualMachineClassBindingNotFound",
                           "listClassBindings")
            ELSE IF \E b \in ListInNamespace(env.classBindings, VMNamespace) :
                      b.kind = "VirtualMachineClass" /\ b.name = ClassName
                 THEN c
                 ELSE MarkFalse(c, "VirtualMachineClassBindingNotFound",
                                "noClassBinding")
       ELSE c

\* instancestorage.IsConfigured: the spec holds instance storage volumes.
IsConfigured(obj) == obj.isVolumes > 0

\* addInstanceStorageSpec: a volume is named after a new UUID for each of
\* the class's instance volumes and the volumes are appended to the spec at
\* the end; if a UUID cannot be made the error is returned and the spec is
\* as it was.
addInstanceStorageSpec(c, env) ==
  IF env.uuidErr
  THEN Fail(c, "newUUID")
  ELSE [c EXCEPT !.vm.isVolumes = @ + env.classVolumes]

\* reconcileInstanceStorageSpec without the tests of lines 753 and 761: the
\* class's volumes are added on every pass.
reconcileInstanceStorageSpecAlwaysAdds(c, env) ==
  IF ~env.fssInstanceStorage
  THEN c
  ELSE IF env.classVolumes = 0
       THEN c
       ELSE addInstanceStorageSpec(c, env)

\* reconcileInstanceStorageSpec without the test of line 753: the volumes
\* are added to a VM that is already Created.
reconcileInstanceStorageSpecIgnoresPhase(c, env) ==
  IF ~env.fssInstanceStorage
  THEN c
  ELSE IF IsConfigured(c.vm)
       THEN c
       ELSE IF env.classVolumes = 0
            THEN c
            ELSE addInstanceStorageSpec(c, env)

reconcileInstanceStorageSpec(c, env) ==
  IF ~env.fssInstanceStorage
  THEN c
  ELSE IF c.vm.phase = Created
       THEN c
       ELSE IF IsConfigured(c.vm)
            THEN c
            ELSE IF env.classVolumes = 0
                 THEN c
                 ELSE addInstanceStorageSpec(c, env)

getContentLibraryProviderFromImage(c, env) ==
  IF "ContentLibraryProvider" \in env.imageOwners
  THEN IF env.clProviderErr THEN Fail(c, "getCLProvider") ELSE c
  ELSE Fail(c, "noCLProviderOwner")

\* getContentSourceFromCLProvider without the error of line 419.
getContentSourceFromCLProviderNoError(c, env) ==
  IF "ContentSource" \in env.clProviderOwners /\ env.contentSourceErr
  THEN Fail(c, "getContentSource")
  ELSE c

getContentSourceFromCLProvider(c, env) ==
  IF "ContentSource" \in env.clProviderOwners
  THEN IF env.contentSourceErr THEN Fail(c, "getContentSource") ELSE c
  ELSE Fail(c, "noContentSourceOwner")

getImageAndContentLibraryUUID(c, env) ==
  IF env.imageErr
  THEN MarkFalse(c, "VirtualMachineImageNotFound", "getImage")
  ELSE LET c1 == getContentLibraryProviderFromImage(c, env) IN
       IF c1.err # "nil"
       THEN c1
       ELSE IF env.fssVMService
            THEN LET c2 == getContentSourceFromCLProvider(c1, env) IN
                 IF c2.err # "nil"
                 THEN c2
                 ELSE IF env.csBindingsErr
                      THEN MarkFalse(c2, "ContentSourceBindingNotFound",
                                     "listCSBindings")
                      ELSE IF \E b \in ListInNamespace(env.csBindings,
                                                       VMNamespace) :
                                b.kind = "ContentSource"
                                /\ b.name = ContentSourceName
                           THEN c2
                           ELSE MarkFalse(c2, "ContentSourceBindingNotFound",
                                          "noCSBinding")
            ELSE c1

\* getVMMetadata without the test of line 558: with both names set the
\* config map is read and then the secret.
getVMMetadataReadsBoth(c, env) ==
  IF env.metadata = "nil"
  THEN c
  ELSE IF env.metadata \in {"configMap", "both"} /\ env.configMapErr
       THEN Fail(c, "getConfigMap")
       ELSE IF env.metadata \in {"secret", "both"} /\ env.secretErr
            THEN Fail(c, "getSecret")
            ELSE c

getVMMetadata(c, env) ==
  IF env.metadata = "nil"
  THEN c
  ELSE IF env.metadata = "both"
       THEN Fail(c, "bothMetadata")
       ELSE IF env.metadata = "configMap" /\ env.configMapErr
            THEN Fail(c, "getConfigMap")
            ELSE IF env.metadata = "secret" /\ env.secretErr
                 THEN Fail(c, "getSecret")
                 ELSE c

\* getResourcePolicy without the test of line 608: a policy the provider
\* reports not ready is returned like a ready one.
getResourcePolicyIgnoresNotReady(c, env) ==
  IF ~env.rpNamed
  THEN c
  ELSE IF env.rpErr
       THEN Fail(c, "getResourcePolicy")
       ELSE LET c1 == [c EXCEPT !.calls = @ \cup {"ready"}] IN
            IF env.rpReady = "err"
            THEN Fail(c1, "rpReadyCheck")
            ELSE [c1 EXCEPT !.rpDeleting = env.rpDeleting]

getResourcePolicy(c, env) ==
  IF ~env.rpNamed
  THEN c
  ELSE IF env.rpErr
       THEN Fail(c, "getResourcePolicy")
       ELSE LET c1 == [c EXCEPT !.calls = @ \cup {"ready"}] IN
            IF env.rpReady = "err"
            THEN Fail(c1, "rpReadyCheck")
            ELSE IF env.rpReady = "no"
                 THEN Fail(c1, "rpNotReady")
                 ELSE [c1 EXCEPT !.rpDeleting = env.rpDeleting]

getStoragePolicyID(c, env) ==
  IF ~env.scNamed
  THEN c
  ELSE IF env.scErr THEN Fail(c, "getStorageClass") ELSE c

findInstanceStorageVMPlacementStatus(c) ==
  IF ~IsConfigured(c.vm) THEN TRUE ELSE c.vm.pvcsBound

\* ------------------------------------------------------- createOrUpdateVM

\* Lines 637-668: the prerequisites in the order the code resolves them,
\* the first failure returned, PrereqsReady marked true after the last.
resolvePrereqs(c, env) ==
  LET c1 == getVMClass(c, env) IN
  IF c1.err # "nil" THEN c1 ELSE
  LET c2 == reconcileInstanceStorageSpec(c1, env) IN
  IF c2.err # "nil" THEN c2 ELSE
  LET c3 == getImageAndContentLibraryUUID(c2, env) IN
  IF c3.err # "nil" THEN c3 ELSE
  LET c4 == getVMMetadata(c3, env) IN
  IF c4.err # "nil" THEN c4 ELSE
  LET c5 == getResourcePolicy(c4, env) IN
  IF c5.err # "nil" THEN c5 ELSE
  LET c6 == getStoragePolicyID(c5, env) IN
  IF c6.err # "nil" THEN c6 ELSE
  MarkTrue([c6 EXCEPT !.fssInstanceStorage = env.fssInstanceStorage])

\* afterExists with the placement check holding back phase Created only:
\* the update call is made while placement is pending.
afterExistsAlwaysUpdates(c) ==
  IF c.fssInstanceStorage /\ ~findInstanceStorageVMPlacementStatus(c)
  THEN [pc |-> "update", c |-> [c EXCEPT !.calls = @ \cup {"update"}]]
  ELSE [pc |-> "update",
        c |-> [c EXCEPT !.vm.phase = Created,
                        !.calls = @ \cup {"update"}]]

\* afterExists with phase Created set before the placement check.
afterExistsMarksCreatedFirst(c) ==
  IF c.fssInstanceStorage /\ ~findInstanceStorageVMPlacementStatus(c)
  THEN [pc |-> "returned", c |-> [c EXCEPT !.vm.phase = Created]]
  ELSE [pc |-> "update",
        c |-> [c EXCEPT !.vm.phase = Created,
                        !.calls = @ \cup {"update"}]]

\* Lines 727-733: after the VM is known to exist.  "returned": placement is
\* pending and createOrUpdateVM returns nil; "update": phase Created is set
\* and the provider update call is made.
afterExists(c) ==
  IF c.fssInstanceStorage /\ ~findInstanceStorageVMPlacementStatus(c)
  THEN [pc |-> "returned", c |-> c]
  ELSE [pc |-> "update",
        c |-> [c EXCEPT !.vm.phase = Created,
                        !.calls = @ \cup {"update"}]]

\* What VMProvider.DoesVirtualMachineExist answers.
ExistsAnswer(exists, fails) ==
  IF fails THEN "err" ELSE IF exists THEN "yes" ELSE "no"

\* createOrUpdateVM with the MarkTrue call of line 668 moved behind the
\* existence query of line 680.
createOrUpdateVMMarksAfterExists(c, env, existsOut) ==
  LET c1 == resolvePrereqs(c, env) IN
  IF c1.err # "nil" THEN [pc |-> "returned", c |-> c1] ELSE
  LET c2 == [c1 EXCEPT !.calls = @ \cup {"exists"}] IN
  IF existsOut = "err"
  THEN [pc |-> "returned",
        c |-> Fail([c2 EXCEPT !.vm.prereqs = c.vm.prereqs,
                              !.marked = "none"], "exists")]
  ELSE IF existsOut = "no"
       THEN [pc |-> "lock", c |-> [c2 EXCEPT !.vm.phase = Creating]]
       ELSE afterExists(c2)

\* Lines 637-693: createOrUpdateVM up to its first blocking point, which is
\* r.mutex.Lock() ("lock"), the update call ("update") or its return.
createOrUpdateVM(c, env, existsOut) ==
  LET c1 == resolvePrereqs(c, env) IN
  IF c1.err # "nil" THEN [pc |-> "returned", c |-> c1] ELSE
  LET c2 == [c1 EXCEPT !.calls = @ \cup {"exists"}] IN
  IF existsOut = "err" THEN [pc |-> "returned", c |-> Fail(c2, "exists")] ELSE
  IF existsOut = "no"
  THEN [pc |-> "lock", c |-> [c2 EXCEPT !.vm.phase = Creating]]
  ELSE afterExists(c2)

\* afterCreateOrUpdateVM without the return at line 366: the VM is added to
\* the prober manager whatever createOrUpdateVM returned.
afterCreateOrUpdateVMAlwaysRegisters(c) == [c EXCEPT !.prober = "add"]

\* Lines 364-372: ReconcileNormal once createOrUpdateVM has returned.
afterCreateOrUpdateVM(c) ==
  IF c.err # "nil" THEN c ELSE [c EXCEPT !.prober = "add"]

\* ReconcileNormal with the prober registration of line 370 made before the
\* return at line 342.
ReconcileNormalRegistersFirst(c, env, existsOut) ==
  IF ~ContainsFinalizer(c.vm, finalizerName)
  THEN [pc |-> "done",
        c |-> [c EXCEPT !.vm = AddFinalizer(@, finalizerName),
                        !.prober = "add"]]
  ELSE LET r == createOrUpdateVM(c, env, existsOut) IN
       IF r.pc = "returned"
       THEN [pc |-> "done", c |-> afterCreateOrUpdateVM(r.c)]
       ELSE r

\* ReconcileNormal without the return at line 342: the pass that adds the
\* finalizer goes on to createOrUpdateVM.
ReconcileNormalFallsThrough(c, env, existsOut) ==
  LET c0 == [c EXCEPT !.vm = AddFinalizer(@, finalizerName)]
      r == createOrUpdateVM(c0, env, existsOut)
  IN IF r.pc = "returned"
     THEN [pc |-> "done", c |-> afterCreateOrUpdateVM(r.c)]
     ELSE r

\* ReconcileNormal up to the first blocking point of createOrUpdateVM.
ReconcileNormal(c, env, existsOut) ==
  IF ~ContainsFinalizer(c.vm, finalizerName)
  THEN [pc |-> "done", c |-> [c EXCEPT !.vm = AddFinalizer(@, finalizerName)]]
  ELSE LET r == createOrUpdateVM(c, env, existsOut) IN
       IF r.pc = "returned"
       THEN [pc |-> "done", c |-> afterCreateOrUpdateVM(r.c)]
       ELSE r

\* afterAcquire with the create call made whatever the resource policy.
afterAcquireIgnoresDeleting(c) ==
  [pc |-> "create", c |-> [c EXCEPT !.calls = @ \cup {"create"}]]

\* Lines 705-719, once the slot is taken: a resource policy that is being
\* deleted ends the pass with an error, else the create call is made.
afterAcquire(c) ==
  IF c.rpDeleting
  THEN [pc |-> "rlock",
        c |-> [c EXCEPT !.err = "rpDeleting", !.events = @ \cup {"Create"}]]
  ELSE [pc |-> "create", c |-> [c EXCEPT !.calls = @ \cup {"create"}]]

\* afterCreate with the phase cleared when the create call fails.
afterCreateClearsPhase(c, out) ==
  IF out = "err"
  THEN [pc |-> "rlock",
        c |-> [c EXCEPT !.err = "create", !.events = @ \cup {"Create"},
                        !.vm.phase = Unset]]
  ELSE LET r == afterExists(c) IN
       IF r.pc = "returned" THEN [pc |-> "rlock", c |-> r.c] ELSE r

\* Lines 719-733: VMProvider.CreateVirtualMachine has returned.
afterCreate(c, out) ==
  IF out = "err"
  THEN [pc |-> "rlock",
        c |-> [c EXCEPT !.err = "create", !.events = @ \cup {"Create"}]]
  ELSE LET r == afterExists(c) IN
       IF r.pc = "returned" THEN [pc |-> "rlock", c |-> r.c] ELSE r

\* What VMProvider.UpdateVirtualMachine leaves in the status it fills in:
\* powered off, powered on without an address, powered on with one.
UpdateStatuses ==
  {[poweredOn |-> FALSE, vmIp |-> FALSE],
   [poweredOn |-> TRUE, vmIp |-> FALSE],
   [poweredOn |-> TRUE, vmIp |-> TRUE]}

\* afterUpdate without the EmitEvent call of line 738.
afterUpdateNoEvent(c, out, st) ==
  IF out = "err"
  THEN [c EXCEPT !.err = "update"]
  ELSE [c EXCEPT !.vm.poweredOn = st.poweredOn, !.vm.vmIp = st.vmIp]

\* Lines 735-742: VMProvider.UpdateVirtualMachine has returned.
afterUpdate(c, out, st) ==
  IF out = "err"
  THEN [c EXCEPT !.err = "update", !.events = @ \cup {"Update"}]
  ELSE [c EXCEPT !.vm.poweredOn = st.poweredOn, !.vm.vmIp = st.vmIp]

\* ---------------------------------------------------------------- Reconcile

\* The pause test of line 236 made for VMs that are not being deleted only.
PausedUnlessDeleting(obj) == obj.pause /\ ~obj.deletionTimestamp

\* Line 236: the VM has the pause annotation.
Paused(obj) == obj.pause

\* What is kept of a pass once it has returned: what the context holds, with
\* err the error of ReconcileDelete or ReconcileNormal, and what Reconcile
\* returned: patch is the outcome of the deferred patch ("none": the pass
\* returned before the patch helper existed), reterr the error returned.
Summary(kind, c) ==
  [kind |-> kind,
   before |-> c.before, vm |-> c.vm, changed |-> Changed(c), calls |-> c.calls,
   events |-> c.events, prober |-> c.prober, marked |-> c.marked,
   reason |-> c.reason, delete |-> c.delete, slot |-> c.slot,
   deferred |-> c.deferred, fssInstanceStorage |-> c.fssInstanceStorage,
   err |-> c.err,
   patch |-> "none", reterr |-> "nil", requeueAfter |-> 0]

\* ReconcileResult with the test of line 248 left out: the patch's error
\* replaces the one of the pass.
ReconcileResultPatchErrorFirst(kind, c, patchOut) ==
  [Summary(kind, c) EXCEPT
     !.patch = patchOut,
     !.reterr = IF patchOut = "fail" THEN "patch" ELSE c.err,
     !.requeueAfter = IF kind = "normal" /\ c.err = "nil"
                      THEN requeueDelay(c) ELSE 0]

\* Lines 246-266: what Reconcile returns for a pass that ran with the patch
\* helper: the deferred patch's error only when the pass had none, and the
\* requeue delay of a normal pass without error.
ReconcileResult(kind, c, patchOut) ==
  [Summary(kind, c) EXCEPT
     !.patch = patchOut,
     !.reterr = IF c.err # "nil" THEN c.err
                ELSE IF patchOut = "fail" THEN "patch" ELSE "nil",
     !.requeueAfter = IF kind = "normal" /\ c.err = "nil"
                      THEN requeueDelay(c) ELSE 0]

\* EarlyResult without client.IgnoreNotFound at line 223.
EarlyResultNotFoundIsError(kind, c) ==
  [Summary(kind, c) EXCEPT
     !.reterr = IF kind \in {"getErr", "notFound"} THEN "get"
                ELSE IF kind = "helperErr" THEN "helper" ELSE "nil"]

\* Lines 220-244: what Reconcile returns before the patch helper exists:
\* the VM is gone, cannot be read, is paused, or the helper cannot be made.
EarlyResult(kind, c) ==
  [Summary(kind, c) EXCEPT
     !.reterr = IF kind = "getErr" THEN "get"
                ELSE IF kind = "helperErr" THEN "helper" ELSE "nil"]

\* ------------------------------------------------------------------ inputs

Binding(ns, kind, name) == [ns |-> ns, kind |-> kind, name |-> name]

\* What the API server and the provider hold for the objects a VM refers
\* to, and the references of the VM's spec, as one pass reads them: here
\* every prerequisite resolves.
GoodEnv ==
  [fssVMService |-> FALSE, fssInstanceStorage |-> FALSE,
   classErr |-> FALSE, classVolumes |-> 0, classBindingsErr |-> FALSE,
   classBindings |-> {Binding(VMNamespace, "VirtualMachineClass", ClassName)},
   imageErr |-> FALSE, imageOwners |-> {"ContentLibraryProvider"},
   clProviderErr |-> FALSE, clProviderOwners |-> {"ContentSource"},
   contentSourceErr |-> FALSE, csBindingsErr |-> FALSE,
   csBindings |-> {Binding(VMNamespace, "ContentSource", ContentSourceName)},
   metadata |-> "nil", configMapErr |-> FALSE, secretErr |-> FALSE,
   rpNamed |-> FALSE, rpErr |-> FALSE, rpReady |-> "yes",
   rpDeleting |-> FALSE, scNamed |-> FALSE, scErr |-> FALSE,
   uuidErr |-> FALSE]

\* GoodEnv and each way one read of it can differ; and a failure ahead of
\* a provider call that the VM's spec asks for.
EnvCases ==
  {GoodEnv,
   [GoodEnv EXCEPT !.classErr = TRUE],
   [GoodEnv EXCEPT !.classBindingsErr = TRUE],
   [GoodEnv EXCEPT !.classBindings = {}],
   [GoodEnv EXCEPT !.classBindings =
      {Binding("ns2", "VirtualMachineClass", ClassName)}],
   [GoodEnv EXCEPT !.classBindings =
      {Binding(VMNamespace, "VirtualMachineClass", "class2")}],
   [GoodEnv EXCEPT !.imageErr = TRUE],
   [GoodEnv EXCEPT !.imageOwners = {}],
   [GoodEnv EXCEPT !.clProviderErr = TRUE],
   [GoodEnv EXCEPT !.clProviderOwners = {}],
   [GoodEnv EXCEPT !.contentSourceErr = TRUE],
   [GoodEnv EXCEPT !.csBindingsErr = TRUE],
   [GoodEnv EXCEPT !.csBindings = {}],
   [GoodEnv EXCEPT !.csBindings =
      {Binding("ns2", "ContentSource", ContentSourceName)}],
   [GoodEnv EXCEPT !.metadata = "configMap"],
   [GoodEnv EXCEPT !.metadata = "configMap", !.configMapErr = TRUE],
   [GoodEnv EXCEPT !.metadata = "secret"],
   [GoodEnv EXCEPT !.metadata = "secret", !.secretErr = TRUE],
   [GoodEnv EXCEPT !.metadata = "both"],
   [GoodEnv EXCEPT !.metadata = "both", !.rpNamed = TRUE],
   [GoodEnv EXCEPT !.rpNamed = TRUE],
   [GoodEnv EXCEPT !.rpNamed = TRUE, !.rpErr = TRUE],
   [GoodEnv EXCEPT !.rpNamed = TRUE, !.rpReady = "err"],
   [GoodEnv EXCEPT !.rpNamed = TRUE, !.rpReady = "no"],
   [GoodEnv EXCEPT !.rpNamed = TRUE, !.rpDeleting = TRUE],
   [GoodEnv EXCEPT !.scNamed = TRUE],
   [GoodEnv EXCEPT !.scNamed = TRUE, !.scErr = TRUE],
   [GoodEnv EXCEPT !.fssInstanceStorage = TRUE],
   [GoodEnv EXCEPT !.fssInstanceStorage = TRUE, !.classVolumes = 1],
   [GoodEnv EXCEPT !.fssInstanceStorage = TRUE, !.classVolumes = 1,
                   !.uuidErr = TRUE]}

Envs == {[e EXCEPT !.fssVMService = f] : e \in EnvCases, f \in BOOLEAN}

\* ----------------------------------------------------------------- actions

Shared == <<mutex, NumVMsBeingCreatedOnProvider>>

\* The result of the VM's pass that just returned has been taken (see
\* HandleResult).
Ready == last = NoLast

\* A pass of the VM that returned before the patch helper existed.
ReturnEarly(kind, c) ==
  /\ last' = EarlyResult(kind, c)
  /\ UNCHANGED <<store, provider, pc, ctx, Shared,
                 MaxConcurrentCreateVMsOnProvider, Outside>>

\* The pass of worker w returns: the deferred patch runs and the worker is
\* free.  The object another worker patches is not the VM's.
Return(w, kind, c, patchOut) ==
  /\ pc' = [pc EXCEPT ![w] = "idle"]
  /\ ctx' = [ctx EXCEPT ![w] = NoCtx]
  /\ IF w = VMWorker
     THEN /\ store' = IF patchOut = "ok"
                      THEN Patch(store, c.before, c.vm) ELSE store
          /\ last' = ReconcileResult(kind, c, patchOut)
     ELSE /\ UNCHANGED store
          /\ last' = NoLast

\* What is kept of the context of a pass while it runs: all of it for the
\* VM's pass, for another worker's only whether it holds a creation slot.
Kept(w, c) == IF w = VMWorker THEN c ELSE [NoCtx EXCEPT !.slot = c.slot]

\* The pass of worker w blocks at r.pc.
Suspend(w, r) ==
  /\ pc' = [pc EXCEPT ![w] = r.pc]
  /\ ctx' = [ctx EXCEPT ![w] = Kept(w, r.c)]
  /\ UNCHANGED store
  /\ last' = NoLast

\* Lines 260-263: ReconcileNormal on the object as stored, with what the
\* pass reads (env) and what the provider answers to the existence query.
NormalPass(env, existsOut) == ReconcileNormal(NewCtx(store), env, existsOut)

\* Reconcile of the VM, from the request to its return or to the first
\* blocking point of createOrUpdateVM.
Reconcile ==
  /\ Ready
  /\ pc[VMWorker] = "idle"
  /\ \E getErr \in BOOLEAN :
       IF getErr THEN ReturnEarly("getErr", NoCtx)
       ELSE IF ~store.present THEN ReturnEarly("notFound", NoCtx)
       ELSE IF Paused(store) THEN ReturnEarly("paused", NewCtx(store))
       ELSE \E helperErr \in BOOLEAN :
       IF helperErr THEN ReturnEarly("helperErr", NewCtx(store))
       ELSE IF store.deletionTimestamp
            THEN \E fails \in BOOLEAN, patchOut \in PatchOutcomes :
                   LET out == DeleteAnswer(provider, fails)
                       c == ReconcileDelete(NewCtx(store), out)
                   IN /\ Return(VMWorker, "delete", c, patchOut)
                      /\ provider' = IF c.delete = "ok" THEN FALSE
                                     ELSE provider
                      /\ UNCHANGED <<Shared, MaxConcurrentCreateVMsOnProvider, Outside>>
            ELSE \E env \in Envs, fails \in BOOLEAN :
                   LET r == NormalPass(env, ExistsAnswer(provider, fails))
                   IN /\ IF r.pc = "done"
                         THEN \E patchOut \in PatchOutcomes :
                                Return(VMWorker, "normal", r.c, patchOut)
                         ELSE Suspend(VMWorker, r)
                      /\ UNCHANGED <<provider, Shared,
                                     MaxConcurrentCreateVMsOnProvider, Outside>>

\* A pass of another worker, for a VirtualMachine the provider does not
\* have, reaches r.mutex.Lock().
ReconcileOther(w) ==
  /\ Ready
  /\ w # VMWorker
  /\ pc[w] = "idle"
  /\ Suspend(w, [pc |-> "lock", c |-> NoCtx])
  /\ UNCHANGED <<provider, Shared, MaxConcurrentCreateVMsOnProvider, Outside>>

\* Line 693 without the mutex: the check and the increment of two passes
\* interleave.
LockWithoutMutex(w) ==
  /\ Ready
  /\ pc[w] = "lock"
  /\ mutex' = w
  /\ pc' = [pc EXCEPT ![w] = "check"]
  /\ last' = NoLast
  /\ UNCHANGED <<store, provider, ctx, NumVMsBeingCreatedOnProvider,
                 MaxConcurrentCreateVMsOnProvider, Outside>>

\* r.mutex.Lock() at line 693.
Lock(w) ==
  /\ Ready
  /\ pc[w] = "lock"
  /\ mutex = 0
  /\ mutex' = w
  /\ pc' = [pc EXCEPT ![w] = "check"]
  /\ last' = NoLast
  /\ UNCHANGED <<store, provider, ctx, NumVMsBeingCreatedOnProvider,
                 MaxConcurrentCreateVMsOnProvider, Outside>>

\* Lines 695-700: with the mutex held, the counter is compared with the cap;
\* at the cap the mutex is released and createOrUpdateVM returns nil.
CheckSlot(w) ==
  /\ Ready
  /\ pc[w] = "check"
  /\ IF NumVMsBeingCreatedOnProvider >= MaxConcurrentCreateVMsOnProvider
     THEN /\ mutex' = 0
          /\ \E patchOut \in PatchOutcomes :
               Return(w, "normal",
                      afterCreateOrUpdateVM([ctx[w] EXCEPT !.deferred = TRUE]),
                      patchOut)
     ELSE /\ pc' = [pc EXCEPT ![w] = "inc"]
          /\ UNCHANGED <<store, ctx, mutex>>
          /\ last' = NoLast
  /\ UNCHANGED <<provider, NumVMsBeingCreatedOnProvider,
                 MaxConcurrentCreateVMsOnProvider, Outside>>

\* Lines 702-719 without the Unlock of line 703.
IncSlotKeepsMutex(w) ==
  /\ Ready
  /\ pc[w] = "inc"
  /\ NumVMsBeingCreatedOnProvider' = NumVMsBeingCreatedOnProvider + 1
  /\ UNCHANGED mutex
  /\ Suspend(w, afterAcquire([ctx[w] EXCEPT !.slot = TRUE]))
  /\ UNCHANGED <<provider, MaxConcurrentCreateVMsOnProvider, Outside>>

\* Lines 702-719: the counter is incremented, the mutex released, and the
\* pass goes on to the create call or to its deferred release.
IncSlot(w) ==
  /\ Ready
  /\ pc[w] = "inc"
  /\ NumVMsBeingCreatedOnProvider' = NumVMsBeingCreatedOnProvider + 1
  /\ mutex' = 0
  /\ Suspend(w, afterAcquire([ctx[w] EXCEPT !.slot = TRUE]))
  /\ UNCHANGED <<provider, MaxConcurrentCreateVMsOnProvider, Outside>>

\* VMProvider.CreateVirtualMachine returns.
CreateReturn(w) ==
  /\ Ready
  /\ pc[w] = "create"
  /\ \E out \in {"ok", "err"} :
       /\ Suspend(w, afterCreate(ctx[w], out))
       /\ provider' = IF w = VMWorker /\ out = "ok" THEN TRUE ELSE provider
  /\ UNCHANGED <<Shared, MaxConcurrentCreateVMsOnProvider, Outside>>

\* VMProvider.UpdateVirtualMachine returns; without a slot to release the
\* pass returns.
UpdateReturn(w) ==
  /\ Ready
  /\ pc[w] = "update"
  /\ \E out \in {"ok", "err"}, st \in UpdateStatuses :
       LET c == afterUpdate(ctx[w], out, st) IN
       IF c.slot
       THEN Suspend(w, [pc |-> "rlock", c |-> c])
       ELSE \E patchOut \in PatchOutcomes :
              Return(w, "normal", afterCreateOrUpdateVM(c), patchOut)
  /\ UNCHANGED <<provider, Shared, MaxConcurrentCreateVMsOnProvider, Outside>>

\* r.mutex.Lock() of the deferred release, line 706.
ReleaseLock(w) ==
  /\ Ready
  /\ pc[w] = "rlock"
  /\ mutex = 0
  /\ mutex' = w
  /\ pc' = [pc EXCEPT ![w] = "dec"]
  /\ last' = NoLast
  /\ UNCHANGED <<store, provider, ctx, NumVMsBeingCreatedOnProvider,
                 MaxConcurrentCreateVMsOnProvider, Outside>>

\* The return of the pass without the decrement of line 707.
ReleaseWithoutDecrement(w) ==
  /\ Ready
  /\ pc[w] = "dec"
  /\ UNCHANGED NumVMsBeingCreatedOnProvider
  /\ mutex' = 0
  /\ \E patchOut \in PatchOutcomes :
       Return(w, "normal", afterCreateOrUpdateVM(ctx[w]), patchOut)
  /\ UNCHANGED <<provider, MaxConcurrentCreateVMsOnProvider, Outside>>

\* Lines 707-708 and the return of the pass.
Release(w) ==
  /\ Ready
  /\ pc[w] = "dec"
  /\ NumVMsBeingCreatedOnProvider' = NumVMsBeingCreatedOnProvider - 1
  /\ mutex' = 0
  /\ \E patchOut \in PatchOutcomes :
       Return(w, "normal", afterCreateOrUpdateVM(ctx[w]), patchOut)
  /\ UNCHANGED <<provider, MaxConcurrentCreateVMsOnProvider, Outside>>

\* ------------------------------------------------------------- environment

Env(obj) ==
  /\ store' = obj
  /\ last' = NoLast
  /\ UNCHANGED <<provider, pc, ctx, Shared,
                 MaxConcurrentCreateVMsOnProvider, Outside>>

\* A client deletes the VM: the API server sets the deletion timestamp.
ClientDelete ==
  /\ Ready
  /\ store.present
  /\ ~store.deletionTimestamp
  /\ Env([store EXCEPT !.deletionTimestamp = TRUE])

\* The API server removes a deleted object once no finalizer is left.
StoreRemove ==
  /\ Ready
  /\ store.present
  /\ store.deletionTimestamp
  /\ store.finalizers = {}
  /\ pc[VMWorker] = "idle"
  /\ Env([store EXCEPT !.present = FALSE])

\* The pause annotation is set while the VM is restored, and removed.  A
\* pass reads the object's annotations once, as it loads the object, and its
\* patch writes only what the pass changed: an annotation changed during a
\* pass is to the controller one changed after it, and the model lets the
\* annotations change between the VM's passes only.
SetPause ==
  /\ Ready
  /\ pc[VMWorker] = "idle"
  /\ store.present
  /\ ~store.pause
  /\ Env([store EXCEPT !.pause = TRUE])

ClearPause ==
  /\ Ready
  /\ pc[VMWorker] = "idle"
  /\ store.present
  /\ store.pause
  /\ Env([store EXCEPT !.pause = FALSE])

\* The volume controller annotates the VM once its instance storage PVCs
\* are bound.
PVCsBound ==
  /\ Ready
  /\ pc[VMWorker] = "idle"
  /\ store.present
  /\ IsConfigured(store)
  /\ ~store.pvcsBound
  /\ Env([store EXCEPT !.pvcsBound = TRUE])

\* The VM disappears from the provider without the controller; the passes
\* ask the provider for it once, so this too is a step between passes.
ProviderLoses ==
  /\ Ready
  /\ pc[VMWorker] = "idle"
  /\ provider
  /\ provider' = FALSE
  /\ last' = NoLast
  /\ UNCHANGED <<store, pc, ctx, Shared,
                 MaxConcurrentCreateVMsOnProvider, Outside>>

\* The work queue takes the result of the VM's pass (requeue after the
\* delay, with backoff on an error, or forget the key).  It does so in the
\* step in which Reconcile returns; the model makes the result a state of its
\* own and lets nothing happen in between.
HandleResult ==
  /\ last # NoLast
  /\ last' = NoLast
  /\ UNCHANGED <<store, provider, pc, ctx, Shared,
                 MaxConcurrentCreateVMsOnProvider, Outside>>

Next ==
  \/ HandleResult
  \/ Reconcile
  \/ ClientDelete
  \/ StoreRemove
  \/ SetPause
  \/ ClearPause
  \/ PVCsBound
  \/ ProviderLoses
  \/ \E w \in Workers : ReconcileOther(w)
  \/ \E w \in Workers : Lock(w)
  \/ \E w \in Workers : CheckSlot(w)
  \/ \E w \in Workers : IncSlot(w)
  \/ \E w \in Workers : CreateReturn(w)
  \/ \E w \in Workers : UpdateReturn(w)
  \/ \E w \in Workers : ReleaseLock(w)
  \/ \E w \in Workers : Release(w)

Spec == Init /\ [][Next]_vars

\* ---------------------------------------------------------------- fairness

\* What a pass does between r.mutex.Lock() and its return.
Step(w) ==
  CheckSlot(w) \/ IncSlot(w) \/ CreateReturn(w) \/ UpdateReturn(w)
    \/ Release(w)

\* A pass takes the mutex.
Acquire(w) == Lock(w) \/ ReleaseLock(w)

\* A pass of the VM while it is paused, and one while it is being deleted.
PausedPass == Paused(store) /\ Reconcile

DeletePass == store.deletionTimestamp /\ Reconcile

\* A delete pass of the VM in which the object is read, the provider's
\* delete returns success or NotFound and the patch is stored.
DeleteDone ==
  /\ DeletePass
  /\ last'.kind = "delete"
  /\ last'.err = "nil"
  /\ last'.patch = "ok"

\* The work queue takes each result and redelivers the request of a VM
\* that is paused or being deleted; a pass that runs goes on, and one that
\* waits for the mutex gets it in the end; reading the object, the
\* provider's delete and the patch do not fail for ever.
Fairness ==
  /\ WF_vars(HandleResult)
  /\ WF_vars(PausedPass)
  /\ WF_vars(DeletePass)
  /\ \A w \in Workers : WF_vars(Step(w)) /\ SF_vars(Acquire(w))
  /\ SF_vars(DeleteDone)

FairSpec == Spec /\ Fairness

\* A pass of the VM, stored with its finalizer and absent on the provider,
\* whose prerequisites resolve with no resource policy being deleted: it
\* reaches r.mutex.Lock().
DeferredRetry ==
  /\ store.present
  /\ ~store.deletionTimestamp
  /\ ~provider
  /\ Reconcile
  /\ pc'[VMWorker] = "lock"
  /\ ~ctx'[VMWorker].rpDeleting

\* The work queue redelivers the request of a VM in phase Creating after
\* the delay of requeueDelay for as long as the VM is not on the provider:
\* passes as in DeferredRetry keep being made.  And every provider call
\* returns and every pass behind r.mutex.Lock() goes on, however often the
\* VM's pass returns in between.
Redelivery ==
  /\ SF_vars(DeferredRetry)
  /\ \A w \in Workers : SF_vars(Step(w))

RedeliverSpec == FairSpec /\ Redelivery

\* -------------------------------------------------- NewReconciler's inputs

\* The largest number of reconcile workers NewReconciler is given.
MaxReconcilers == 4

\* The percentages: 1 to the 100 the product is divided by at line 182.
MaxPercent == 100

\* Before AddToManager: no Reconciler and no workers yet, and what it will
\* be constructed from.
ConstructInit ==
  /\ config \in [numReconcilers : 1 .. MaxReconcilers,
                 percent : 1 .. MaxPercent]
  /\ store = NewVM
  /\ provider = FALSE
  /\ pc = [w \in {} |-> "idle"]
  /\ ctx = [w \in {} |-> NoCtx]
  /\ mutex = 0
  /\ NumVMsBeingCreatedOnProvider = 0
  /\ MaxConcurrentCreateVMsOnProvider = 0
  /\ last = NoLast
  /\ cluster = NoCluster
  /\ requests = NoRequests
  /\ svc = NoSvc
  /\ svcLast = NoServiceLast

\* Lines 63-79: AddToManager constructs the Reconciler and the controller
\* with its workers.
AddToManager ==
  /\ DOMAIN pc = {}
  /\ MaxConcurrentCreateVMsOnProvider' =
       NewReconciler(config.numReconcilers, config.percent)
  /\ pc' = [w \in 1 .. config.numReconcilers |-> "idle"]
  /\ ctx' = [w \in 1 .. config.numReconcilers |-> NoCtx]
  /\ UNCHANGED <<store, provider, Shared, last, Outside>>

\* The Reconciler constructed from each number of workers and percentage,
\* and then the passes of its workers as far as they touch the Reconciler:
\* the mutex and the counter of creates, read against the cap.
ConstructNext ==
  \/ AddToManager
  \/ \E w \in DOMAIN pc : ReconcileOther(w)
  \/ \E w \in DOMAIN pc : Lock(w)
  \/ \E w \in DOMAIN pc : CheckSlot(w)
  \/ \E w \in DOMAIN pc : IncSlot(w)
  \/ \E w \in DOMAIN pc : CreateReturn(w)
  \/ \E w \in DOMAIN pc : UpdateReturn(w)
  \/ \E w \in DOMAIN pc : ReleaseLock(w)
  \/ \E w \in DOMAIN pc : Release(w)

ConstructSpec == ConstructInit /\ [][ConstructNext]_vars

\* ------------------------------------------------------------ watch mappers

\* client.List(ctx, vmList, client.InNamespace(ns)) without InNamespace.
ListVMsAllNamespaces(vms, ns) == vms

\* client.List(ctx, vmList, client.InNamespace(ns)): the VirtualMachines of
\* the namespace, in the order of the list.
ListVMs(vms, ns) == SelectSeq(vms, LAMBDA vm : vm.ns = ns)

\* reconcile.Request{NamespacedName: key}, one for each VM of the list.
RequestsFor(vms) ==
  [i \in 1 .. Len(vms) |-> [ns |-> vms[i].ns, name |-> vms[i].name]]

\* Lines 146-170: the mapper of VirtualMachineClassBinding events.  fails
\* is the read that fails, "none" if none does.
classBindingToVMMapperFn(cl, classBinding, fails) ==
  IF fails = "listVMs"
  THEN <<>>
  ELSE RequestsFor(SelectSeq(ListVMs(cl.vms, classBinding.ns),
                             LAMBDA vm : vm.className = classBinding.ref))

\* The test of line 115 without the ownerRef.Kind comparison.
OwnerRefMatchesAnyKind(ownerRef, clProvider) == ownerRef.uid = clProvider.uid

\* Line 115: the ownerRef is one to this ContentLibraryProvider.
OwnerRefMatches(ownerRef, clProvider) ==
  /\ ownerRef.kind = "ContentLibraryProvider"
  /\ ownerRef.uid = clProvider.uid

\* Lines 85-138: the mapper of ContentSourceBinding events.
csBindingToVMMapperFn(cl, binding, fails) ==
  IF fails = "getContentSource" \/ binding.ref \notin DOMAIN cl.contentSources
  THEN <<>>
  ELSE
  LET providerRef == cl.contentSources[binding.ref].providerRef IN
  IF fails = "getCLProvider" \/ providerRef \notin DOMAIN cl.clProviders
  THEN <<>>
  ELSE
  LET clProviderFromBinding == cl.clProviders[providerRef] IN
  IF fails = "listImages"
  THEN <<>>
  ELSE
  LET imagesToReconcile ==
        {img \in DOMAIN cl.images :
           \E ownerRef \in cl.images[img] :
             OwnerRefMatches(ownerRef, clProviderFromBinding)}
  IN
  IF fails = "listVMs"
  THEN <<>>
  ELSE RequestsFor(SelectSeq(ListVMs(cl.vms, binding.ns),
                             LAMBDA vm : vm.imageName \in imagesToReconcile))

\* The objects the mappers are given to read.
Namespaces == {"ns1", "ns2"}

ClassNames == {"class1", "class2"}

ImageNames == {"img1", "img2"}

\* The keys of the VirtualMachines that may be stored, in the order a list
\* returns them, and the class and image a stored one names ("" for both:
\* the VirtualMachine is not stored).
VMKeys ==
  <<[ns |-> "ns1", name |-> "vm1"], [ns |-> "ns1", name |-> "vm2"],
    [ns |-> "ns2", name |-> "vm1"]>>

VMSpecs ==
  {[className |-> "", imageName |-> ""],
   [className |-> "class1", imageName |-> "img1"],
   [className |-> "class2", imageName |-> "img2"],
   [className |-> "class1", imageName |-> "img2"]}

VMList(specs) ==
  SelectSeq([i \in 1 .. Len(VMKeys) |->
               [ns |-> VMKeys[i].ns, name |-> VMKeys[i].name,
                className |-> specs[i].className,
                imageName |-> specs[i].imageName]],
            LAMBDA vm : vm.className # "")

VMLists == {VMList(specs) : specs \in [1 .. Len(VMKeys) -> VMSpecs]}

OwnerRef(kind, uid) == [kind |-> kind, uid |-> uid]

\* The owner references of the images: none, one to either
\* ContentLibraryProvider, one of another kind.
ImageOwners ==
  {f \in [ImageNames ->
            {{}, {OwnerRef("ContentLibraryProvider", "uidA")},
             {OwnerRef("ContentLibraryProvider", "uidB")},
             {OwnerRef("ContentSource", "uidA")}}] :
     f["img2"] \in {{}, {OwnerRef("ContentLibraryProvider", "uidA")}}}

\* The one ContentSource, cs1, and the provider its spec refers to; clp3 is
\* not stored.
ContentSources ==
  {[cs \in {ContentSourceName} |-> [providerRef |-> p]] :
     p \in {"clp1", "clp2", "clp3"}}

\* The two ContentLibraryProviders and the ContentSources that own them.
CLProviders ==
  {[p \in {"clp1", "clp2"} |->
      [uid |-> IF p = "clp1" THEN "uidA" ELSE "uidB", owners |-> o[p]]] :
     o \in {[clp1 |-> {ContentSourceName}, clp2 |-> {}],
            [clp1 |-> {}, clp2 |-> {ContentSourceName}],
            [clp1 |-> {ContentSourceName}, clp2 |-> {ContentSourceName}]}}

Clusters ==
  [vms : VMLists, images : ImageOwners, contentSources : ContentSources,
   clProviders : CLProviders]

MapperInit ==
  /\ cluster \in Clusters
  /\ requests = NoRequests
  /\ store = NewVM
  /\ provider = FALSE
  /\ pc = [w \in Workers |-> "idle"]
  /\ ctx = [w \in Workers |-> NoCtx]
  /\ mutex = 0
  /\ NumVMsBeingCreatedOnProvider = 0
  /\ config = [numReconcilers |-> MaxConcurrentReconciles,
               percent |-> CreatePercent]
  /\ MaxConcurrentCreateVMsOnProvider =
       NewReconciler(MaxConcurrentReconciles, CreatePercent)
  /\ last = NoLast
  /\ svc = NoSvc
  /\ svcLast = NoServiceLast

\* The watch of line 75 delivers an event on a VirtualMachineClassBinding.
ClassBindingEvent ==
  /\ requests = NoRequests
  /\ \E binding \in [ns : Namespaces, ref : ClassNames],
        fails \in {"none", "listVMs"} :
       requests' = [kind |-> "classBinding", binding |-> binding,
                    fails |-> fails,
                    out |-> classBindingToVMMapperFn(cluster, binding, fails)]
  /\ UNCHANGED <<cluster, Reconcilers, Services>>

\* The watch of line 77 delivers an event on a ContentSourceBinding; cs2 is
\* a ContentSource that is not stored.
CSBindingEvent ==
  /\ requests = NoRequests
  /\ \E binding \in [ns : Namespaces, ref : {ContentSourceName, "cs2"}],
        fails \in {"none", "getContentSource", "getCLProvider",
                   "listImages", "listVMs"} :
       requests' = [kind |-> "csBinding", binding |-> binding,
                    fails |-> fails,
                    out |-> csBindingToVMMapperFn(cluster, binding, fails)]
  /\ UNCHANGED <<cluster, Reconcilers, Services>>

\* handler.EnqueueRequestsFromMapFunc adds the requests to the work queue.
Enqueue ==
  /\ requests # NoRequests
  /\ requests' = NoRequests
  /\ UNCHANGED <<cluster, Reconcilers, Services>>

MapperNext ==
  \/ ClassBindingEvent
  \/ CSBindingEvent
  \/ Enqueue

MapperSpec == MapperInit /\ [][MapperNext]_vars

\* ------------------------------------- VirtualMachineService: the endpoints

\* probeFailureRequeueTime, in seconds.
probeFailureRequeueTime == 10

\* finalizerName of the virtualmachineservice package.
serviceFinalizerName == "virtualmachineservice.vmoperator.vmware.com"

\* intstr.FromInt and intstr.FromString.
FromInt(n) == [type |-> "Int", intVal |-> n, strVal |-> ""]

FromString(s) == [type |-> "String", intVal |-> 0, strVal |-> s]

\* findPort: the number of the port a VM is to be reached at; err if a
\* named port is not among the VM's.  The first port of that name and
\* protocol is taken.
findPort(vm, portName, portProto) ==
  IF portName.type = "String"
  THEN LET found == {i \in 1 .. Len(vm.ports) :
                       /\ vm.ports[i].name = portName.strVal
                       /\ vm.ports[i].protocol = portProto}
       IN IF found = {}
          THEN [port |-> 0, err |-> TRUE]
          ELSE [port |-> vm.ports[CHOOSE i \in found :
                                    \A j \in found : i <= j].port,
                err |-> FALSE]
  ELSE [port |-> portName.intVal, err |-> FALSE]

\* runProbe taken to succeed whatever the probe.
runProbeAlwaysSucceeds(vm, dial) == "nil"

\* runProbe: no probe succeeds, a TCP probe succeeds if its port is found
\* and the connection (dial: "ok" or "fail") is made, a probe with no known
\* action fails.
runProbe(vm, dial) ==
  IF vm.probe.action = "none"
  THEN "nil"
  ELSE IF vm.probe.action = "tcpSocket"
       THEN IF findPort(vm, vm.probe.port, "TCP").err
            THEN "findPort"
            ELSE IF dial = "ok" THEN "nil" ELSE "dial"
       ELSE "unknownAction"

makeEndpointAddress(vmService, vm) ==
  [ip |-> vm.vmIp, targetRef |-> vmService.name]

addEndpointSubset(subsets, epa, epp) ==
  Append(subsets, [addresses |-> <<epa>>, ports |-> <<epp>>])

\* Lines 579-595: one subset for each port of the service that the VM has.
RECURSIVE PortLoop(_, _, _, _, _)
PortLoop(subsets, epa, vm, ports, n) ==
  IF n = 0
  THEN subsets
  ELSE LET done == PortLoop(subsets, epa, vm, ports, n - 1)
           servicePort == ports[n]
           found == findPort(vm, servicePort.targetPort, servicePort.protocol)
       IN IF found.err
          THEN done
          ELSE addEndpointSubset(done, epa,
                                 [name |-> servicePort.name,
                                  port |-> found.port,
                                  protocol |-> servicePort.protocol])

\* Lines 546-596: the loop over the first n selected VMs; dial[i] is what
\* the connection to the i-th answers.
RECURSIVE VMLoop(_, _, _, _, _)
VMLoop(vmService, ports, vms, dial, n) ==
  IF n = 0
  THEN [subsets |-> <<>>, probeFailureCount |-> 0]
  ELSE LET done == VMLoop(vmService, ports, vms, dial, n - 1)
           vm == vms[n]
       IN IF vm.deleting
          THEN done
          ELSE IF vm.vmIp = ""
               THEN done
               ELSE IF vm.host = ""
                    THEN done
                    ELSE IF runProbe(vm, dial[n]) # "nil"
                         THEN [done EXCEPT !.probeFailureCount = @ + 1]
                         ELSE [done EXCEPT
                                 !.subsets =
                                   PortLoop(@, makeEndpointAddress(vmService, vm),
                                            vm, ports, Len(ports))]

\* Line 600 with the failures counted against the VMs that were probed.
AllProbesFailedOfProbed(probeFailureCount, vms) ==
  /\ probeFailureCount > 0
  /\ probeFailureCount =
       Cardinality({i \in 1 .. Len(vms) :
                      /\ ~vms[i].deleting
                      /\ vms[i].vmIp # ""
                      /\ vms[i].host # ""})

\* Line 600 with the signal never given.
AllProbesFailedNever(probeFailureCount, vms) == FALSE

\* Line 600: the probe failed on all the VMs of the list.
AllProbesFailed(probeFailureCount, vms) ==
  probeFailureCount > 0 /\ probeFailureCount = Len(vms)

\* Line 619 with no two lists of subsets taken for equal.
DeepEqualNever(currentSubsets, subsets) == FALSE

\* Line 619: apiequality.Semantic.DeepEqual on two lists of subsets; a nil
\* and an empty list are equal.
DeepEqual(currentSubsets, subsets) == currentSubsets = subsets

\* updateEndpoints.  fails is the call that fails in this pass ("none": no
\* call does).  The result: err, the error returned ("requeueAfter": the
\* RequeueAfterError), write, the write issued for the Endpoints, and
\* endpoints, the object as stored afterwards.
updateEndpoints(vmService, service, vms, endpoints, dial, fails) ==
  IF fails = "listSelected"
  THEN [err |-> "listSelected", write |-> "none", endpoints |-> endpoints,
        subsets |-> <<>>, probeFailureCount |-> 0]
  ELSE
  LET loop == VMLoop(vmService, service.ports, vms, dial, Len(vms))
      updateErr == IF AllProbesFailed(loop.probeFailureCount, vms)
                   THEN "requeueAfter" ELSE "nil"
      out == [err |-> updateErr, write |-> "none", endpoints |-> endpoints,
              subsets |-> loop.subsets,
              probeFailureCount |-> loop.probeFailureCount]
  IN
  IF fails = "getEndpoints"
  THEN [out EXCEPT !.err = "getEndpoints"]
  ELSE IF endpoints.present /\ DeepEqual(endpoints.subsets, loop.subsets)
       THEN out
       ELSE LET write == IF endpoints.present THEN "update" ELSE "create" IN
            IF fails = "writeEndpoints"
            THEN [out EXCEPT !.err = "writeEndpoints", !.write = write]
            ELSE [out EXCEPT !.write = write,
                             !.endpoints = [present |-> TRUE,
                                            subsets |-> loop.subsets]]

\* --------------------------------------- VirtualMachineService: the Service

\* vmServiceToService: the ports of the native Service; the translation has
\* no node port.
vmServiceToService(vmService) ==
  [type |-> vmService.type,
   ports |-> [i \in 1 .. Len(vmService.ports) |->
                [name |-> vmService.ports[i].name,
                 protocol |-> vmService.ports[i].protocol,
                 port |-> vmService.ports[i].port,
                 targetPort |-> FromInt(vmService.ports[i].targetPort),
                 nodePort |-> 0]]]

\* Lines 458-466 without the map of node ports.
KeepNoNodePorts(currentPorts, ports) == ports

\* Lines 458-466: a port keeps the node port the current Service has for its
\* port number; of two current ports of one number the later one counts.
KeepNodePorts(currentPorts, ports) ==
  [idx \in 1 .. Len(ports) |->
     LET same == {i \in 1 .. Len(currentPorts) :
                    currentPorts[i].port = ports[idx].port}
     IN IF same = {}
        THEN ports[idx]
        ELSE [ports[idx] EXCEPT
                !.nodePort =
                  currentPorts[CHOOSE i \in same :
                                 \A j \in same : j <= i].nodePort]]

\* What the API server stores on a write of a Service: a port of a
\* LoadBalancer Service with no node port is allocated one.
AllocateNodePorts(type, ports) ==
  [i \in 1 .. Len(ports) |->
     IF type = "LoadBalancer" /\ ports[i].nodePort = 0
     THEN [ports[i] EXCEPT !.nodePort = 30000 + ports[i].port]
     ELSE ports[i]]

\* What VMServiceCompareToLastApplied compares: the applied configuration
\* of the VirtualMachineService, which MakeObjectMeta copies to the Service.
LastApplied(vmService) == [type |-> vmService.type, ports |-> vmService.ports]

\* createOrUpdateService.  The result: err, event (the Create event, with
\* or without an error), write, sent (the object the write was issued
\* with), service (the object returned) and stored (the object as stored
\* afterwards).
createOrUpdateService(vmService, service, stored, fails) ==
  IF fails = "getService"
  THEN [err |-> "getService", event |-> "none", write |-> "none",
        service |-> NoService, stored |-> stored,
        sent |-> NoService]
  ELSE IF stored.present /\ stored.lastApplied = LastApplied(vmService)
       THEN [err |-> "nil", event |-> "none", write |-> "none",
             service |-> stored, stored |-> stored,
        sent |-> NoService]
       ELSE
       LET currentPorts == IF stored.present THEN stored.ports
                           ELSE service.ports
           newService == [present |-> TRUE,
                          type |-> service.type,
                          ports |-> KeepNodePorts(currentPorts, service.ports),
                          ingress |-> stored.ingress,
                          lastApplied |-> LastApplied(vmService)]
           write == IF stored.present THEN "update" ELSE "create"
           written == [newService EXCEPT
                         !.ports = AllocateNodePorts(newService.type, @)]
       IN IF fails = "writeService"
          THEN [err |-> "writeService",
                event |-> IF write = "create" THEN "CreateFailure"
                          ELSE "none",
                write |-> write, service |-> newService, stored |-> stored,
                sent |-> newService]
          ELSE [err |-> "nil",
                event |-> IF write = "create" THEN "CreateSuccess"
                          ELSE "none",
                write |-> write, service |-> written, stored |-> written,
                sent |-> newService]

\* updateVmServiceStatus: the ingress of a LoadBalancer Service is copied to
\* the VirtualMachineService when the two differ.
updateVmServiceStatus(vmService, newService, fails) ==
  IF /\ vmService.type = "LoadBalancer"
     /\ Len(newService.ingress) > 0
     /\ vmService.ingress # newService.ingress
  THEN IF fails = "updateStatus"
       THEN [err |-> "updateStatus", vmService |-> vmService]
       ELSE [err |-> "nil",
             vmService |-> [vmService EXCEPT !.ingress = newService.ingress]]
  ELSE [err |-> "nil", vmService |-> vmService]

\* What a pass that stopped before the Service and the Endpoints reports.
NoServiceWork ==
  [event |-> "none", serviceWrite |-> "none", sent |-> NoService,
   write |-> "none", subsets |-> <<>>, probeFailureCount |-> 0,
   probed |-> FALSE]

\* reconcileVmService on the state s of the cluster.
reconcileVmService(s, vmService, dial, fails) ==
  IF vmService.type = "LoadBalancer"
     /\ fails \in {"listVirtualNetwork", "GetNetworkName", "EnsureLoadBalancer"}
  THEN [err |-> fails, svc |-> s, work |-> NoServiceWork]
  ELSE
  LET ensured == IF vmService.type = "LoadBalancer"
                 THEN [s EXCEPT !.loadBalancer = TRUE] ELSE s
      made == createOrUpdateService(vmService, vmServiceToService(vmService),
                                    s.service, fails)
      afterService == [ensured EXCEPT !.service = made.stored]
  IN
  IF made.err # "nil"
  THEN [err |-> made.err, svc |-> afterService,
        work |-> [NoServiceWork EXCEPT !.event = made.event,
                                       !.serviceWrite = made.write,
                                       !.sent = made.sent]]
  ELSE
  LET updated == updateEndpoints(vmService, made.service, s.vms, s.endpoints,
                                 dial, fails)
      afterEndpoints == [afterService EXCEPT !.endpoints = updated.endpoints]
      work == [event |-> made.event, serviceWrite |-> made.write,
               sent |-> made.sent,
               write |-> updated.write, subsets |-> updated.subsets,
               probeFailureCount |-> updated.probeFailureCount,
               probed |-> fails # "listSelected"]
  IN
  IF updated.err # "nil"
  THEN [err |-> updated.err, svc |-> afterEndpoints, work |-> work]
  ELSE LET status == updateVmServiceStatus(vmService, made.service, fails) IN
       [err |-> status.err,
        svc |-> [afterEndpoints EXCEPT !.vmService = status.vmService],
        work |-> work]

\* ------------------------------------ VirtualMachineService: the reconciler

\* Reconcile of the VirtualMachineService reconciler on the state s of the
\* cluster: the state it leaves and what it returns.  dial[i] is what a
\* connection to the i-th selected VM answers and fails the call that fails.
ServicePass(s, dial, fails) ==
  LET stop(kind, err, s2, work) ==
        [svc |-> s2,
         last |-> [kind |-> kind, err |-> err, requeueAfter |-> 0,
                   work |-> work, vms |-> s.vms, before |-> s.endpoints,
                   dial |-> dial, fails |-> fails, service |-> s2.service,
                   current |-> s.service]]
      instance == s.vmService
  IN
  IF fails = "get"
  THEN stop("get", "get", s, NoServiceWork)
  ELSE IF ~instance.present
  THEN stop("notFound", "nil", s, NoServiceWork)
  ELSE IF instance.deleting
  THEN IF serviceFinalizerName \in instance.finalizers
       THEN LET work == [NoServiceWork EXCEPT !.event = "DeleteSuccess"]
                removed == [instance EXCEPT
                              !.finalizers = @ \ {serviceFinalizerName}]
            IN IF fails = "update"
               THEN stop("delete", "update", s, work)
               ELSE stop("delete", "nil",
                         [s EXCEPT !.vmService =
                                     IF removed.finalizers = {}
                                     THEN NoVMService ELSE removed],
                         work)
       ELSE stop("delete", "nil", s, NoServiceWork)
  ELSE IF serviceFinalizerName \notin instance.finalizers /\ fails = "update"
  THEN stop("normal", "update", s, NoServiceWork)
  ELSE
  LET vmService == [instance EXCEPT
                      !.finalizers = @ \cup {serviceFinalizerName}]
      out == reconcileVmService([s EXCEPT !.vmService = vmService],
                                vmService, dial, fails)
  IN IF out.err = "requeueAfter"
     THEN [stop("normal", "nil", out.svc, out.work) EXCEPT
             !.last.requeueAfter = probeFailureRequeueTime]
     ELSE stop("normal", out.err, out.svc, out.work)

\* The calls of a pass that can fail.
ServiceFailures ==
  {"none", "get", "update", "listVirtualNetwork", "GetNetworkName",
   "EnsureLoadBalancer", "getService", "writeService", "listSelected",
   "getEndpoints", "writeEndpoints", "updateStatus"}

\* The ports a VirtualMachineService is applied with.
VMServicePort(name, port) ==
  [name |-> name, protocol |-> "TCP", port |-> port, targetPort |-> port]

VMServicePorts ==
  {<<VMServicePort("http", 80)>>,
   <<VMServicePort("http", 80), VMServicePort("https", 443)>>,
   <<VMServicePort("https", 443)>>}

\* The VMs a selector selects: each is being deleted, has no IP, has no
\* host, or is ready with no probe, with a TCP probe at a port given by
\* number or by a name it has or has not, or with a probe of no action.
SelectedVM(name, ip) ==
  LET ready == [name |-> name, deleting |-> FALSE, vmIp |-> ip,
                host |-> "host1",
                probe |-> [action |-> "tcpSocket", port |-> FromInt(80)],
                ports |-> <<[name |-> "http", protocol |-> "TCP",
                             port |-> 80]>>]
  IN {ready,
      [ready EXCEPT !.deleting = TRUE],
      [ready EXCEPT !.vmIp = ""],
      [ready EXCEPT !.host = ""],
      [ready EXCEPT !.probe = [action |-> "none", port |-> FromInt(0)]],
      [ready EXCEPT !.probe.port = FromString("http")],
      [ready EXCEPT !.probe.port = FromString("ssh")],
      [ready EXCEPT !.probe.action = "unknown"]}

SelectedLists ==
  {<<>>}
    \cup {<<a>> : a \in SelectedVM("vm1", "10.0.0.1")}
    \cup {<<a, b>> : a \in SelectedVM("vm1", "10.0.0.1"),
                     b \in SelectedVM("vm2", "10.0.0.2")}

\* A client has applied a VirtualMachineService; nothing was reconciled.
ServiceInit ==
  /\ \E type \in {"ClusterIP", "LoadBalancer"}, ports \in VMServicePorts,
        vms \in SelectedLists :
       svc = [NoSvc EXCEPT
                !.vmService = [present |-> TRUE, name |-> "svc1",
                               deleting |-> FALSE, finalizers |-> {},
                               type |-> type, ports |-> ports,
                               ingress |-> <<>>],
                !.vms = vms]
  /\ svcLast = NoServiceLast
  /\ cluster = NoCluster
  /\ requests = NoRequests
  /\ store = NewVM
  /\ provider = FALSE
  /\ pc = [w \in Workers |-> "idle"]
  /\ ctx = [w \in Workers |-> NoCtx]
  /\ mutex = 0
  /\ NumVMsBeingCreatedOnProvider = 0
  /\ config = [numReconcilers |-> MaxConcurrentReconciles,
               percent |-> CreatePercent]
  /\ MaxConcurrentCreateVMsOnProvider =
       NewReconciler(MaxConcurrentReconciles, CreatePercent)
  /\ last = NoLast

\* A worker of the controller runs Reconcile for the VirtualMachineService.
ServiceReconcile ==
  /\ svcLast = NoServiceLast
  /\ \E dial \in [1 .. Len(svc.vms) -> {"ok", "fail"}],
        fails \in ServiceFailures :
       \E out \in {ServicePass(svc, dial, fails)} :
         /\ svc' = out.svc
         /\ svcLast' = out.last
  /\ UNCHANGED <<cluster, requests, Reconcilers>>

\* The controller takes what Reconcile returned.
ServiceHandleResult ==
  /\ svcLast # NoServiceLast
  /\ svcLast' = NoServiceLast
  /\ UNCHANGED <<svc, cluster, requests, Reconcilers>>

\* A client applies the VirtualMachineService with other ports.
ServiceApply ==
  /\ svcLast = NoServiceLast
  /\ svc.vmService.present
  /\ \E ports \in VMServicePorts \ {svc.vmService.ports} :
       svc' = [svc EXCEPT !.vmService.ports = ports]
  /\ UNCHANGED <<svcLast, cluster, requests, Reconcilers>>

\* A client deletes the VirtualMachineService: the API server sets the
\* deletion timestamp, or removes an object that has no finalizer.
ServiceDelete ==
  /\ svcLast = NoServiceLast
  /\ svc.vmService.present
  /\ ~svc.vmService.deleting
  /\ svc' = [svc EXCEPT
               !.vmService = IF @.finalizers = {} THEN NoVMService
                             ELSE [@ EXCEPT !.deleting = TRUE]]
  /\ UNCHANGED <<svcLast, cluster, requests, Reconcilers>>

\* The load balancer of the Service is given its ingress address.
ServiceIngress ==
  /\ svcLast = NoServiceLast
  /\ svc.service.present
  /\ svc.service.type = "LoadBalancer"
  /\ svc.service.ingress = <<>>
  /\ svc' = [svc EXCEPT !.service.ingress = <<"192.168.0.1">>]
  /\ UNCHANGED <<svcLast, cluster, requests, Reconcilers>>

\* The garbage collector removes the Service and the Endpoints, which the
\* VirtualMachineService owns, once it is gone.
ServiceCollect ==
  /\ svcLast = NoServiceLast
  /\ ~svc.vmService.present
  /\ svc.service.present \/ svc.endpoints.present
  /\ svc' = [svc EXCEPT !.service = NoService, !.endpoints = NoEndpoints]
  /\ UNCHANGED <<svcLast, cluster, requests, Reconcilers>>

ServiceNext ==
  \/ ServiceReconcile
  \/ ServiceHandleResult
  \/ ServiceApply
  \/ ServiceDelete
  \/ ServiceIngress
  \/ ServiceCollect

ServiceSpec == ServiceInit /\ [][ServiceNext]_vars

\* ------------------------------------------------------------------ claims

ProviderCalls == {"exists", "create", "update"}

\* The place of a phase in the order unset, Creating, Created, Deleting,
\* Deleted.
PhaseRank(p) ==
  CASE p = Unset -> 0
    [] p = Creating -> 1
    [] p = Created -> 2
    [] p = Deleting -> 3
    [] p = Deleted -> 4

\* The passes that hold a creation slot.
SlotHolders == {w \in Workers : ctx[w].slot}

\* C1: a pass that loaded the VM without the finalizer makes no provider
\* exists, create or update call: while the VM's pass runs and once it has
\* returned, such a call was made only if the object the pass loaded had the
\* finalizer, which is then in the stored object (an earlier pass's patch
\* put it there).
C1_NoProviderCallBeforeFinalizer ==
  /\ last.calls \cap ProviderCalls # {} => ContainsFinalizer(last.before, finalizerName)
  /\ ctx[VMWorker].calls \cap ProviderCalls # {} =>
       /\ ContainsFinalizer(ctx[VMWorker].before, finalizerName)
       /\ ContainsFinalizer(store, finalizerName)

\* The pass that loaded the VM without the finalizer has returned and its
\* patch stored the finalizer.
C1_Witness ==
  /\ last.kind = "normal"
  /\ ~ContainsFinalizer(last.before, finalizerName)
  /\ last.patch = "ok"
  /\ ContainsFinalizer(store, finalizerName)

\* C2: the finalizer leaves the stored object only by the patch of a
\* delete pass in which the provider's delete returned success or NotFound.
C2_FinalizerRemovedOnlyAfterDelete ==
  [][(ContainsFinalizer(store, finalizerName)
        /\ ~ContainsFinalizer(store', finalizerName))
      => /\ last'.kind = "delete"
         /\ last'.delete \in {"ok", "notfound"}
         /\ last'.patch = "ok"
         /\ ~provider']_vars

\* A delete pass has removed the finalizer after the provider deleted the VM.
C2_Witness ==
  /\ last.kind = "delete"
  /\ ContainsFinalizer(last.before, finalizerName)
  /\ last.delete = "ok"
  /\ last.patch = "ok"
  /\ ~ContainsFinalizer(store, finalizerName)

\* C3: with the cap below the number of workers, the counter stays between
\* 0 and the cap and counts the passes that hold a slot, so that at most
\* cap create calls are in flight; a pass that finds the counter at the cap
\* is not made to wait (its step is enabled) and returns without error and
\* without a slot.
C3_CounterWithinCap ==
  /\ MaxConcurrentCreateVMsOnProvider < MaxConcurrentReconciles
  /\ NumVMsBeingCreatedOnProvider >= 0
  /\ NumVMsBeingCreatedOnProvider <= MaxConcurrentCreateVMsOnProvider
  /\ NumVMsBeingCreatedOnProvider = Cardinality(SlotHolders)
  /\ Cardinality({w \in Workers : pc[w] = "create"})
       <= MaxConcurrentCreateVMsOnProvider
  /\ \A w \in Workers :
       (Ready /\ pc[w] = "check") => ENABLED CheckSlot(w)
  /\ last.deferred =>
       /\ last.err = "nil"
       /\ ~last.slot
       /\ "create" \notin last.calls

\* Every slot is taken, and a second pass holds the mutex and is about to
\* compare the counter with the cap.
C3_Witness ==
  /\ NumVMsBeingCreatedOnProvider = MaxConcurrentCreateVMsOnProvider
  /\ \E w1, w2 \in Workers :
       /\ w1 # w2
       /\ pc[w1] = "create"
       /\ pc[w2] = "check"

\* C4 as the specification states it: the stored phase never moves back in
\* the order unset, Creating, Created, Deleting, Deleted.
C4_PhaseNeverMovesBack ==
  [][PhaseRank(store'.phase) >= PhaseRank(store.phase)]_vars

\* C4: the stored phase never moves back in the order unset, Creating,
\* Created, Deleting, Deleted, except from Created to Creating by the patch
\* of a normal pass that asked the provider and set Creating because the
\* provider no longer has the VM.
C4_PhaseMovesBackOnlyToCreating ==
  [][\/ PhaseRank(store'.phase) >= PhaseRank(store.phase)
     \/ /\ store.phase = Created
        /\ store'.phase = Creating
        /\ last'.kind = "normal"
        /\ last'.before.phase = Created
        /\ last'.vm.phase = Creating
        /\ "exists" \in last'.calls
        /\ "update" \notin last'.calls
        /\ last'.patch = "ok"]_vars

\* A normal pass loaded the VM as Created and its patch stored Creating.
C4_Witness ==
  /\ last.kind = "normal"
  /\ last.before.phase = Created
  /\ last.patch = "ok"
  /\ store.phase = Creating

\* C5: a normal pass that loaded the VM without the finalizer adds the
\* finalizer and nothing else: no provider call, no prerequisite resolved,
\* no phase or condition change, no event, no prober registration, no slot,
\* no error from ReconcileNormal, so that Reconcile returns nil unless the
\* patch fails; its patch stores the finalizer, and no pass of the VM gets
\* as far as the mutex or a provider call without having loaded the
\* finalizer.
C5_FinalizerPassOnlyAddsFinalizer ==
  /\ (last.kind = "normal" /\ ~ContainsFinalizer(last.before, finalizerName))
       => /\ ContainsFinalizer(last.vm, finalizerName)
          /\ last.changed = {"finalizers"}
          /\ last.calls = {}
          /\ last.events = {}
          /\ last.marked = "none"
          /\ last.prober = "none"
          /\ ~last.slot
          /\ ~last.deferred
          /\ last.err = "nil"
          /\ last.reterr = (IF last.patch = "ok" THEN "nil" ELSE "patch")
          /\ last.patch = "ok" => ContainsFinalizer(store, finalizerName)
  /\ pc[VMWorker] # "idle"
       => ContainsFinalizer(ctx[VMWorker].before, finalizerName)

\* The finalizer pass has returned for a VM that is not being deleted and
\* whose phase and conditions are still unset.
C5_Witness ==
  /\ last.kind = "normal"
  /\ ~ContainsFinalizer(last.before, finalizerName)
  /\ ~last.vm.deletionTimestamp
  /\ last.vm.finalizers = {finalizerName}
  /\ last.vm.phase = Unset
  /\ last.reterr = "nil"

\* C6: a delete pass that loaded the finalizer and whose provider delete
\* returned success or NotFound ends with phase Deleted, the finalizer
\* removed, the VM removed from the prober manager and no error from
\* ReconcileDelete; Reconcile returns nil and the patch stores phase and
\* finalizers unless the patch fails.
C6_DeleteSucceeds ==
  (/\ last.kind = "delete"
   /\ ContainsFinalizer(last.before, finalizerName)
   /\ last.delete \in {"ok", "notfound"})
    => /\ last.vm.phase = Deleted
       /\ ~ContainsFinalizer(last.vm, finalizerName)
       /\ last.prober = "remove"
       /\ last.calls = {"delete"}
       /\ last.err = "nil"
       /\ last.reterr = (IF last.patch = "ok" THEN "nil" ELSE "patch")
       /\ last.patch = "ok" =>
            /\ store.phase = Deleted
            /\ ~ContainsFinalizer(store, finalizerName)

\* A delete pass found the VM already absent at the provider and finished.
C6_Witness ==
  /\ last.kind = "delete"
  /\ ContainsFinalizer(last.before, finalizerName)
  /\ last.delete = "notfound"
  /\ last.reterr = "nil"
  /\ store.phase = Deleted
  /\ store.finalizers = {}

\* C7: a delete pass whose provider delete failed with an error other than
\* NotFound returns that error, leaves the finalizer on the object and in
\* the store, leaves phase Deleting on the object (stored unless the patch
\* fails), and does not touch the prober manager.
C7_DeleteFails ==
  (last.kind = "delete" /\ last.delete = "err")
    => /\ last.err = "delete"
       /\ last.reterr = "delete"
       /\ ContainsFinalizer(last.vm, finalizerName)
       /\ ContainsFinalizer(store, finalizerName)
       /\ last.vm.phase = Deleting
       /\ last.prober = "none"
       /\ store.phase = (IF last.patch = "ok" THEN Deleting
                         ELSE last.before.phase)

\* A delete pass failed at the provider and its patch stored phase Deleting.
C7_Witness ==
  /\ last.kind = "delete"
  /\ last.delete = "err"
  /\ last.patch = "ok"
  /\ store.phase = Deleting
  /\ ContainsFinalizer(store, finalizerName)

\* C8 as the specification states it: with requests redelivered and the
\* provider's delete succeeding in the end, a VM that is being deleted and
\* has the finalizer gets the finalizer removed.
C8_DeletingLeadsToFinalizerRemoved ==
  (store.deletionTimestamp /\ ContainsFinalizer(store, finalizerName))
    ~> ~ContainsFinalizer(store, finalizerName)

\* C8: with requests redelivered and the provider's delete succeeding in
\* the end, a VM that is being deleted and has the finalizer gets the
\* finalizer removed unless it stays paused from some point on; and a delete
\* pass that failed leaves the VM stored, being deleted and with the
\* finalizer, which is what the next delete pass needs.
C8_DeletingUnpausedLeadsToFinalizerRemoved ==
  /\ [](last.kind = "delete" /\ last.err # "nil"
          => /\ store.present
             /\ store.deletionTimestamp
             /\ ContainsFinalizer(store, finalizerName))
  /\ ([]<>~store.pause)
       => ((store.deletionTimestamp
              /\ ContainsFinalizer(store, finalizerName))
            ~> ~ContainsFinalizer(store, finalizerName))

\* A delete pass removed the finalizer of a VM that an earlier delete pass
\* had left in phase Deleting.
C8_Witness ==
  /\ last.kind = "delete"
  /\ last.before.phase = Deleting
  /\ ContainsFinalizer(last.before, finalizerName)
  /\ ~last.before.pause
  /\ last.patch = "ok"
  /\ ~ContainsFinalizer(store, finalizerName)

\* C9: a pass that finds no creation slot free returns in that step with
\* the counter as it was and the mutex free; for the VM's pass, which the
\* provider reported absent, there is no error from ReconcileNormal, no
\* create or update call, no slot, phase Creating on the object, and a
\* result that asks for a requeue after 10 seconds; Reconcile returns nil
\* and the patch stores phase Creating unless the patch fails.
C9_DeferredCreate ==
  [][/\ \A w \in Workers :
          (pc[w] = "check" /\ pc'[w] = "idle")
            => /\ NumVMsBeingCreatedOnProvider
                    >= MaxConcurrentCreateVMsOnProvider
               /\ NumVMsBeingCreatedOnProvider' = NumVMsBeingCreatedOnProvider
               /\ mutex' = 0
     /\ last'.deferred
          => /\ pc[VMWorker] = "check"
             /\ last'.kind = "normal"
             /\ last'.err = "nil"
             /\ "exists" \in last'.calls
             /\ last'.calls \cap {"create", "update"} = {}
             /\ ~last'.slot
             /\ last'.vm.phase = Creating
             /\ last'.requeueAfter = RequeueSeconds
             /\ last'.reterr = (IF last'.patch = "ok" THEN "nil" ELSE "patch")
             /\ last'.patch = "ok" => store'.phase = Creating
             /\ provider' = provider]_vars

\* The VM's pass was deferred, returned nil and its patch stored Creating.
C9_Witness ==
  /\ last.deferred
  /\ last.reterr = "nil"
  /\ last.requeueAfter = RequeueSeconds
  /\ store.phase = Creating
  /\ NumVMsBeingCreatedOnProvider = MaxConcurrentCreateVMsOnProvider

\* C10: a pass that loads the VM with the pause annotation returns an empty
\* result and nil: no requeue, no provider call, no event, no change to
\* finalizers, phase or conditions, no patch, no prober call, nothing stored
\* and nothing changed at the provider or in the counter; and no pass that
\* goes on to ReconcileDelete or ReconcileNormal loaded a paused VM,
\* whether or not it is being deleted.
C10_PausedSkipped ==
  [][/\ last'.kind = "paused"
          => /\ last'.before.pause
             /\ last'.reterr = "nil"
             /\ last'.requeueAfter = 0
             /\ last'.calls = {}
             /\ last'.events = {}
             /\ last'.changed = {}
             /\ last'.vm = last'.before
             /\ last'.marked = "none"
             /\ last'.prober = "none"
             /\ last'.patch = "none"
             /\ UNCHANGED <<store, provider, pc, ctx, Shared>>
     /\ last'.kind \in {"delete", "normal"} => ~last'.before.pause
     /\ pc'[VMWorker] # "idle" => ~ctx'[VMWorker].before.pause]_vars

\* A paused VM that is being deleted and has the finalizer was skipped.
C10_Witness ==
  /\ last.kind = "paused"
  /\ last.vm.deletionTimestamp
  /\ ContainsFinalizer(last.vm, finalizerName)
  /\ store = last.vm

\* C11: a pass that finds the VM absent from the store returns an empty
\* result and nil, with no provider call, no patch and nothing changed in
\* the store, at the provider or in the counter; a pass whose read of the VM
\* fails otherwise returns that error, with nothing changed either; and a
\* pass goes beyond the read only for a VM that is stored.
C11_AbsentVMIsNoOp ==
  [][/\ last'.kind = "notFound"
          => /\ ~store.present
             /\ last'.reterr = "nil"
             /\ last'.requeueAfter = 0
             /\ last'.calls = {}
             /\ last'.events = {}
             /\ last'.prober = "none"
             /\ last'.patch = "none"
             /\ UNCHANGED <<store, provider, pc, ctx, Shared>>
     /\ last'.kind = "getErr"
          => /\ last'.reterr = "get"
             /\ last'.requeueAfter = 0
             /\ last'.calls = {}
             /\ last'.patch = "none"
             /\ UNCHANGED <<store, provider, pc, ctx, Shared>>
     /\ last'.kind \in {"paused", "helperErr", "delete", "normal"}
          => last'.before.present]_vars

\* A pass found the VM removed from the store.
C11_Witness ==
  /\ last.kind = "notFound"
  /\ ~store.present
  /\ last.reterr = "nil"

\* The states in which a pass of the VM goes to createOrUpdateVM: the VM is
\* stored with the finalizer, not paused and not being deleted, and its
\* worker is free.
NormalStart ==
  /\ Ready
  /\ pc[VMWorker] = "idle"
  /\ store.present
  /\ ~store.pause
  /\ ~store.deletionTimestamp
  /\ ContainsFinalizer(store, finalizerName)

ExistsAnswers == {"yes", "no", "err"}

\* createOrUpdateVM's context once class, instance storage spec and image
\* have been dealt with (lines 637-650).
ImageStage(env) ==
  LET c1 == getVMClass(NewCtx(store), env) IN
  IF c1.err # "nil" THEN c1 ELSE
  LET c2 == reconcileInstanceStorageSpec(c1, env) IN
  IF c2.err # "nil" THEN c2 ELSE getImageAndContentLibraryUUID(c2, env)

\* C12: whenever a pass of the VM goes to createOrUpdateVM and reads a
\* metadata reference with both a config map and a secret name, the pass
\* returns an error without blocking and without any provider call (no
\* readiness check, existence query, create or update), and the error is the
\* both-specified one if class and image resolved; and a pass that returned
\* that error made no provider call and no prober registration.
C12_BothMetadataFails ==
  /\ NormalStart =>
       \A env \in Envs, e \in ExistsAnswers :
         env.metadata = "both" =>
           LET r == NormalPass(env, e) IN
           /\ r.pc = "done"
           /\ r.c.err # "nil"
           /\ r.c.calls = {}
           /\ ImageStage(env).err = "nil" => r.c.err = "bothMetadata"
  /\ last.err = "bothMetadata" =>
       /\ last.kind = "normal"
       /\ last.reterr = "bothMetadata"
       /\ last.calls = {}
       /\ last.prober = "none"
       /\ ~last.slot

\* A pass failed with the both-specified error, for a VM that can also
\* name a resource policy.
C12_Witness ==
  /\ last.kind = "normal"
  /\ last.err = "bothMetadata"
  /\ last.calls = {}
  /\ \E env \in Envs : env.metadata = "both" /\ env.rpNamed

\* A binding of the VM's own namespace that refers to its class.
HasClassBinding(env) ==
  \E b \in env.classBindings :
    /\ b.ns = VMNamespace
    /\ b.kind = "VirtualMachineClass"
    /\ b.name = ClassName

\* C13: with binding enforcement on, whenever a pass of the VM goes to
\* createOrUpdateVM, finds the class and lists the bindings, and no binding
\* of the VM's own namespace refers to the class (one of another namespace
\* does not count), the pass returns the binding error without blocking,
\* with PrereqsReady false for the reason VirtualMachineClassBindingNotFound
\* and without any provider call; a pass that returned that error made no
\* create or update call, and its patch stores the condition.
C13_NoClassBindingFails ==
  /\ NormalStart =>
       \A env \in Envs, e \in ExistsAnswers :
         (/\ env.fssVMService
          /\ ~env.classErr
          /\ ~env.classBindingsErr
          /\ ~HasClassBinding(env)) =>
           LET r == NormalPass(env, e) IN
           /\ r.pc = "done"
           /\ r.c.err = "noClassBinding"
           /\ r.c.vm.prereqs = "False"
           /\ r.c.reason = "VirtualMachineClassBindingNotFound"
           /\ r.c.calls = {}
  /\ last.err = "noClassBinding" =>
       /\ last.kind = "normal"
       /\ last.reterr = "noClassBinding"
       /\ last.vm.prereqs = "False"
       /\ last.marked = "False"
       /\ last.reason = "VirtualMachineClassBindingNotFound"
       /\ last.calls \cap {"create", "update"} = {}
       /\ last.patch = "ok" => store.prereqs = "False"

\* A pass failed for want of a class binding and its patch stored the
\* condition; one of the cases is a binding in another namespace only.
C13_Witness ==
  /\ last.err = "noClassBinding"
  /\ last.patch = "ok"
  /\ store.prereqs = "False"
  /\ \E env \in Envs :
       /\ env.fssVMService
       /\ ~HasClassBinding(env)
       /\ \E b \in env.classBindings :
            b.ns # VMNamespace /\ b.name = ClassName

\* The class resolves and the image is read, so that a pass gets to the
\* image's owner references.
ReachesImageOwners(env) ==
  /\ getVMClass(NewCtx(store), env).err = "nil"
  /\ ~env.imageErr

NoCLProviderLink(env) == "ContentLibraryProvider" \notin env.imageOwners

NoContentSourceLink(env) ==
  /\ ~NoCLProviderLink(env)
  /\ ~env.clProviderErr
  /\ "ContentSource" \notin env.clProviderOwners

\* C14 as the specification states it: whenever a pass gets to the image's
\* owner references and either link is missing, image resolution fails,
\* with binding enforcement on or off.
C14_MissingLinkAlwaysFails ==
  NormalStart =>
    \A env \in Envs :
      (ReachesImageOwners(env)
         /\ (NoCLProviderLink(env) \/ NoContentSourceLink(env)))
        => ImageStage(env).err # "nil"

\* C14: whenever a pass gets to the image's owner references, a missing
\* ContentLibraryProvider link fails image resolution, with binding
\* enforcement on or off; a missing ContentSource link fails it with binding
\* enforcement on, and with binding enforcement off the link is not looked
\* at and the image resolves.  A pass that failed on either link made no
\* provider call.
C14_MissingLinkFailsWhereLookedAt ==
  /\ NormalStart =>
       \A env \in Envs, e \in ExistsAnswers :
         ReachesImageOwners(env) =>
           /\ NoCLProviderLink(env) =>
                /\ ImageStage(env).err = "noCLProviderOwner"
                /\ NormalPass(env, e).c.err = "noCLProviderOwner"
           /\ (NoContentSourceLink(env) /\ env.fssVMService) =>
                /\ ImageStage(env).err = "noContentSourceOwner"
                /\ NormalPass(env, e).c.err = "noContentSourceOwner"
           /\ (NoContentSourceLink(env) /\ ~env.fssVMService) =>
                ImageStage(env).err = "nil"
  /\ last.err \in {"noCLProviderOwner", "noContentSourceOwner"} =>
       /\ last.kind = "normal"
       /\ last.reterr = last.err
       /\ last.calls = {}

\* A pass failed on a ContentLibraryProvider without a ContentSource owner.
C14_Witness ==
  /\ last.kind = "normal"
  /\ last.err = "noContentSourceOwner"
  /\ last.reterr = "noContentSourceOwner"

\* A binding of the VM's own namespace that refers to the image's
\* ContentSource.
HasCSBinding(env) ==
  \E b \in env.csBindings :
    /\ b.ns = VMNamespace
    /\ b.kind = "ContentSource"
    /\ b.name = ContentSourceName

\* The pass gets to the ContentSourceBindings of the VM's namespace: class
\* and image resolve up to the ContentSource and the list is read.
ReachesCSBindings(env) ==
  /\ ReachesImageOwners(env)
  /\ ~NoCLProviderLink(env)
  /\ ~env.clProviderErr
  /\ "ContentSource" \in env.clProviderOwners
  /\ ~env.contentSourceErr
  /\ ~env.csBindingsErr

\* C15: with binding enforcement on, whenever a pass of the VM gets to the
\* ContentSourceBindings of the VM's namespace and none of them refers to
\* the image's ContentSource (one of another namespace does not count), the
\* pass returns the binding error without blocking, with PrereqsReady false
\* for the reason ContentSourceBindingNotFound and without any provider
\* call; a pass that returned that error made no create or update call, and
\* its patch stores the condition.
C15_NoCSBindingFails ==
  /\ NormalStart =>
       \A env \in Envs, e \in ExistsAnswers :
         (env.fssVMService /\ ReachesCSBindings(env) /\ ~HasCSBinding(env)) =>
           LET r == NormalPass(env, e) IN
           /\ r.pc = "done"
           /\ r.c.err = "noCSBinding"
           /\ r.c.vm.prereqs = "False"
           /\ r.c.reason = "ContentSourceBindingNotFound"
           /\ r.c.calls = {}
  /\ last.err = "noCSBinding" =>
       /\ last.kind = "normal"
       /\ last.reterr = "noCSBinding"
       /\ last.vm.prereqs = "False"
       /\ last.marked = "False"
       /\ last.reason = "ContentSourceBindingNotFound"
       /\ last.calls \cap {"create", "update"} = {}
       /\ last.patch = "ok" => store.prereqs = "False"

\* A pass failed for want of a ContentSourceBinding and its patch stored
\* the condition; one of the cases is a binding in another namespace only.
C15_Witness ==
  /\ last.err = "noCSBinding"
  /\ last.patch = "ok"
  /\ store.prereqs = "False"
  /\ \E env \in Envs :
       /\ env.fssVMService
       /\ ~HasCSBinding(env)
       /\ \E b \in env.csBindings :
            b.ns # VMNamespace /\ b.name = ContentSourceName

\* What getResourcePolicy returns for a policy that cannot be fetched, whose
\* readiness cannot be checked, or that is not ready.
ResourcePolicyErrors == {"getResourcePolicy", "rpReadyCheck", "rpNotReady"}

\* C16: whenever a pass of the VM goes to createOrUpdateVM for a VM that
\* names a resource policy, and the policy cannot be fetched or the provider
\* does not report it ready, the pass returns an error without blocking and
\* without an existence query, create or update call; the error is
\* getResourcePolicy's if the prerequisites before it resolved.  A pass that
\* returned such an error called the provider at most for the readiness
\* check, and Reconcile returned the error with no requeue delay.
C16_ResourcePolicyNotReadyFails ==
  /\ NormalStart =>
       \A env \in Envs, e \in ExistsAnswers :
         (env.rpNamed /\ (env.rpErr \/ env.rpReady # "yes")) =>
           LET r == NormalPass(env, e)
               c3 == ImageStage(env)
           IN /\ r.pc = "done"
              /\ r.c.err # "nil"
              /\ r.c.calls \cap {"exists", "create", "update"} = {}
              /\ (c3.err = "nil" /\ getVMMetadata(c3, env).err = "nil") =>
                   r.c.err = (IF env.rpErr THEN "getResourcePolicy"
                              ELSE IF env.rpReady = "err" THEN "rpReadyCheck"
                              ELSE "rpNotReady")
  /\ last.err \in ResourcePolicyErrors =>
       /\ last.kind = "normal"
       /\ last.reterr = last.err
       /\ last.requeueAfter = 0
       /\ last.calls \subseteq {"ready"}
       /\ last.err = "getResourcePolicy" => last.calls = {}
       /\ last.prober = "none"
       /\ ~last.slot

\* A pass asked the provider about the resource policy, was told it is not
\* ready, and returned the error.
C16_Witness ==
  /\ last.kind = "normal"
  /\ last.err = "rpNotReady"
  /\ last.reterr = "rpNotReady"
  /\ last.calls = {"ready"}

\* The passes that loaded the VM and did not find it paused.
LoadedUnpaused == {"helperErr", "delete", "normal"}

\* What the patch of the pass that just returned was to store is stored.
PatchStored ==
  \A f \in last.changed : store[f] = last.vm[f]

\* C17 as the specification states it: every pass that loaded the VM and
\* did not find it paused attempted the patch; the error of the pass is
\* returned if there is one, else the patch's if the patch failed.
C17_PatchOnEveryExit ==
  last.kind \in LoadedUnpaused =>
    /\ last.patch \in PatchOutcomes
    /\ last.err # "nil" => last.reterr = last.err
    /\ (last.err = "nil" /\ last.patch = "fail") => last.reterr = "patch"

\* C17: every pass that loaded the VM, did not find it paused and got its
\* patch helper attempted the patch, on the delete and on the normal path,
\* with or without an error, and a patch that succeeded stored what the pass
\* changed; the error of the pass is returned if there is one, else the
\* patch's if the patch failed, else nil.  A pass that could not make the
\* patch helper returns that error without a patch, having changed nothing.
C17_PatchOnEveryExitWithHelper ==
  /\ last.kind \in {"delete", "normal"} =>
       /\ last.patch \in PatchOutcomes
       /\ last.patch = "ok" => PatchStored
       /\ last.reterr = (IF last.err # "nil" THEN last.err
                         ELSE IF last.patch = "fail" THEN "patch" ELSE "nil")
  /\ last.kind = "helperErr" =>
       /\ last.patch = "none"
       /\ last.reterr = "helper"
       /\ last.changed = {}
       /\ last.calls = {}

\* The pass failed and so did its patch: the error returned is the pass's.
C17_Witness ==
  /\ last.kind \in {"delete", "normal"}
  /\ last.err # "nil"
  /\ last.patch = "fail"
  /\ last.reterr = last.err
  /\ last.changed # {}

\* The delay requeueDelay is to give for the object a pass leaves.
ExpectedDelay(obj) ==
  IF obj.phase = Creating THEN RequeueSeconds
  ELSE IF obj.poweredOn /\ ~obj.vmIp THEN RequeueSeconds
  ELSE 0

\* C18 as the specification states it: a normal pass that returns no error
\* asks for 10 seconds if the phase is Creating or the VM is powered on
\* without an address, else for none; a delete pass and a pass that returns
\* an error ask for none.
C18_DelayOnlyWithoutError ==
  /\ (last.kind = "normal" /\ last.reterr = "nil")
       => last.requeueAfter = ExpectedDelay(last.vm)
  /\ (last.kind = "delete" \/ last.reterr # "nil") => last.requeueAfter = 0

\* C18: a normal pass in which ReconcileNormal returns no error asks for 10
\* seconds if the phase is Creating or the VM is powered on without an
\* address, else for none, and does so too when its patch then fails and
\* Reconcile returns the patch error; every other pass (delete path, an
\* error from ReconcileNormal, a return before the patch helper) asks for
\* none.
C18_DelayFollowsReconcileNormal ==
  /\ (last.kind = "normal" /\ last.err = "nil")
       => last.requeueAfter = ExpectedDelay(last.vm)
  /\ (last.kind # "normal" \/ last.err # "nil") => last.requeueAfter = 0

\* A normal pass returned nil for a VM that is Created and powered on
\* without an address, and asked for the delay.
C18_Witness ==
  /\ last.kind = "normal"
  /\ last.reterr = "nil"
  /\ last.vm.phase = Created
  /\ last.vm.poweredOn
  /\ ~last.vm.vmIp
  /\ last.requeueAfter = RequeueSeconds

\* The pass that just returned resolved every prerequisite and the VM was
\* on the provider: the provider said so, or the pass's create call
\* succeeded (a pass that is told the VM is absent is deferred or takes a
\* slot).
OnProvider ==
  /\ last.kind = "normal"
  /\ "exists" \in last.calls
  /\ \/ last.err # "exists" /\ ~last.deferred /\ ~last.slot
     \/ "create" \in last.calls /\ last.err # "create"

\* Instance storage placement was pending in the pass that just returned:
\* the feature is on, the VM has instance storage volumes and the PVCs-bound
\* annotation is absent.
PlacementPending ==
  /\ last.kind = "normal"
  /\ last.fssInstanceStorage
  /\ IsConfigured(last.vm)
  /\ ~last.vm.pvcsBound

\* C19 as the specification states it: a pass that resolved every
\* prerequisite and had the VM on the provider made the update call.
C19_UpdateAlwaysFollows ==
  OnProvider => "update" \in last.calls

\* C19: a pass that resolved every prerequisite and had the VM on the
\* provider made the update call unless instance storage placement was
\* pending; with placement pending it returned nil without the update call
\* and without setting phase Created.
C19_UpdateFollowsUnlessPlacementPending ==
  OnProvider =>
    /\ "update" \in last.calls <=> ~PlacementPending
    /\ PlacementPending =>
         /\ last.err = "nil"
         /\ "phase" \in last.changed => last.vm.phase # Created

\* The provider had the VM, placement was pending, and the pass returned
\* without the update call.
C19_Witness ==
  /\ OnProvider
  /\ PlacementPending
  /\ "create" \notin last.calls
  /\ "update" \notin last.calls
  /\ last.reterr = "nil"

\* C20: with the instance storage feature on, a pass in which placement is
\* pending does not set phase Created, with or without a create call of its
\* own: neither the pass that returned nor the pass that is running has
\* changed the phase to Created.
C20_PendingPlacementNeverCreated ==
  /\ PlacementPending =>
       ("phase" \in last.changed => last.vm.phase # Created)
  /\ LET c == ctx[VMWorker] IN
     (/\ pc[VMWorker] # "idle"
      /\ c.fssInstanceStorage
      /\ IsConfigured(c.vm)
      /\ ~c.vm.pvcsBound)
       => (c.vm.phase = Created => c.before.phase = Created)

\* The pass created the VM on the provider while placement was pending and
\* left the phase at Creating.
C20_Witness ==
  /\ PlacementPending
  /\ "create" \in last.calls
  /\ last.err = "nil"
  /\ last.vm.phase = Creating
  /\ last.patch = "ok"
  /\ store.phase = Creating

\* Lines 336-373 for a VM the provider has: ReconcileNormal on the object
\* obj from its start to its return, the provider's update call answering
\* out and filling in the status st.
ExistingPass(obj, env, out, st) ==
  LET r == ReconcileNormal(NewCtx(obj), env, "yes") IN
  IF r.pc = "update"
  THEN afterCreateOrUpdateVM(afterUpdate(r.c, out, st))
  ELSE r.c

\* What the calls of a pass on a VM the provider has are drawn from.
IdempotentCalls == {"exists", "ready", "update"}

\* The fields of the object that a second pass must leave alone.
SettledFields == {"phase", "prereqs", "finalizers", "isVolumes"}

\* C21: whenever the provider has the VM and a pass of the VM goes to
\* createOrUpdateVM, that pass followed by a second one that reads the same
\* objects and gets the same answers from the provider makes in the second
\* no create call (only the existence query, the readiness check and the
\* update call), and the second leaves phase, PrereqsReady, finalizers and
\* the instance storage volumes of the spec as the first left them; and a
\* pass that returned for a VM loaded with phase Created and PrereqsReady
\* true, found on the provider and updated without error, changed none of
\* these fields.
C21_SecondPassChangesNothing ==
  /\ (NormalStart /\ provider) =>
       \A env \in Envs, out \in {"ok", "err"}, st \in UpdateStatuses :
         LET p1 == ExistingPass(store, env, out, st)
             s1 == Patch(store, store, p1.vm)
             p2 == ExistingPass(s1, env, out, st)
         IN /\ "create" \notin p2.calls
            /\ p2.calls \subseteq IdempotentCalls
            /\ p2.calls = p1.calls
            /\ \A f \in SettledFields : p2.vm[f] = s1[f]
  /\ (/\ last.kind = "normal"
      /\ last.before.phase = Created
      /\ last.before.prereqs = "True"
      /\ "update" \in last.calls
      /\ "create" \notin last.calls
      /\ last.err = "nil")
       => last.changed \cap SettledFields = {}

\* A pass returned that found the VM on the provider with phase Created,
\* made the existence query and the update call and no create call, and
\* changed nothing on the object; the pass before it had stored the same
\* values.
C21_Witness ==
  /\ last.kind = "normal"
  /\ last.before.phase = Created
  /\ last.before.prereqs = "True"
  /\ last.calls = {"exists", "update"}
  /\ last.changed = {}
  /\ last.reterr = "nil"
  /\ provider

\* The errors of dependency resolution that are returned after a
\* conditions.MarkFalse call: class, class binding, image and content source
\* binding.
MarkedErrors ==
  {"getClass", "listClassBindings", "noClassBinding", "getImage",
   "listCSBindings", "noCSBinding"}

\* The errors of dependency resolution that are returned as they are: the
\* owner chain of the image, metadata, resource policy and storage class.
UnmarkedErrors ==
  {"noCLProviderOwner", "getCLProvider", "noContentSourceOwner",
   "getContentSource", "bothMetadata", "getConfigMap", "getSecret",
   "getResourcePolicy", "rpReadyCheck", "rpNotReady", "getStorageClass"}

ResolutionErrors == MarkedErrors \cup UnmarkedErrors

Visible == last.marked # "none" \/ last.events # {}

\* The event that goes with the error of a provider call, or of the create
\* call given up for a resource policy that is being deleted.
EventOf(err) ==
  CASE err = "create" -> "Create"
    [] err = "rpDeleting" -> "Create"
    [] err = "update" -> "Update"
    [] err = "delete" -> "Delete"

C24_CapIsCeiling ==
  DOMAIN pc # {} =>
    /\ MaxConcurrentCreateVMsOnProvider * 100
         >= config.numReconcilers * config.percent
    /\ (MaxConcurrentCreateVMsOnProvider - 1) * 100
         < config.numReconcilers * config.percent
    /\ MaxConcurrentCreateVMsOnProvider >= 1
    /\ MaxConcurrentCreateVMsOnProvider <= config.numReconcilers
    /\ NumVMsBeingCreatedOnProvider <= MaxConcurrentCreateVMsOnProvider

\* A Reconciler constructed from 3 workers and 34 percent has the cap 2
\* (3 * 34 / 100 = 1.02), and passes of its workers hold that many slots.
C24_Witness ==
  /\ DOMAIN pc # {}
  /\ config.numReconcilers = 3
  /\ config.percent = 34
  /\ MaxConcurrentCreateVMsOnProvider = 2
  /\ NumVMsBeingCreatedOnProvider = 2

\* C25: a normal pass that returned added the VM to the prober manager
\* exactly if it loaded the VM with the finalizer and createOrUpdateVM
\* returned no error; it made no other call to the prober manager, so the
\* pass that only adds the finalizer and the passes in which
\* createOrUpdateVM fails make none.
C25_RegisteredIffNoError ==
  last.kind = "normal" =>
    /\ last.prober \in {"none", "add"}
    /\ last.prober = "add" <=>
         /\ ContainsFinalizer(last.before, finalizerName)
         /\ last.err = "nil"

\* A pass updated the VM on the provider without error and added it to the
\* prober manager.
C25_Witness ==
  /\ last.kind = "normal"
  /\ "update" \in last.calls
  /\ last.err = "nil"
  /\ last.prober = "add"

\* The stored VM has phase Deleted and no finalizer: a delete pass set the
\* one and removed the other, and its patch was stored.
StoredDeleted ==
  /\ store.phase = Deleted
  /\ ~ContainsFinalizer(store, finalizerName)

\* C26: once the stored VM has phase Deleted and no finalizer, every step
\* leaves phase, finalizers and deletion timestamp as they are and the
\* provider untouched, and a pass of the VM that returns made no provider
\* call, changed nothing on the object and returned no error other than
\* that of reading the object or of making the patch helper.
C26_DeletedIsTerminal ==
  [][StoredDeleted =>
       /\ store'.phase = Deleted
       /\ store'.finalizers = store.finalizers
       /\ store'.deletionTimestamp
       /\ provider' = provider
       /\ pc'[VMWorker] = "idle"
       /\ last' # NoLast =>
            /\ last'.calls = {}
            /\ last'.changed = {}
            /\ last'.delete = "none"
            /\ last'.err = "nil"
            /\ last'.kind \in {"delete", "paused", "notFound", "getErr",
                               "helperErr"}]_vars

\* A delete pass loaded the VM with phase Deleted and without the finalizer
\* and returned without a provider call, the object still stored.
C26_Witness ==
  /\ last.kind = "delete"
  /\ last.before.phase = Deleted
  /\ ~ContainsFinalizer(last.before, finalizerName)
  /\ last.before.deletionTimestamp
  /\ last.calls = {}
  /\ last.prober = "remove"
  /\ store.present
  /\ StoredDeleted

\* How many requests of the sequence are for the key.
Count(reqs, key) == Cardinality({i \in 1 .. Len(reqs) : reqs[i] = key})

KeyOf(vm) == [ns |-> vm.ns, name |-> vm.name]

\* The stored VirtualMachines.
StoredVMs == {cluster.vms[i] : i \in 1 .. Len(cluster.vms)}

\* The requests the mapper returned are for stored VirtualMachines only.
OnlyStoredVMs ==
  \A i \in 1 .. Len(requests.out) :
    \E vm \in StoredVMs : requests.out[i] = KeyOf(vm)

\* What C27 asks of the requests returned for a VirtualMachineClassBinding.
ClassBindingRequests ==
  /\ OnlyStoredVMs
  /\ \A vm \in StoredVMs :
       Count(requests.out, KeyOf(vm)) =
         IF /\ requests.fails = "none"
            /\ vm.ns = requests.binding.ns
            /\ vm.className = requests.binding.ref
         THEN 1 ELSE 0

\* C27: the mapper called for a VirtualMachineClassBinding returns exactly
\* one request for each stored VM of the binding's namespace whose class
\* name is the binding's class reference, none for any other VM, and none
\* at all if the VM list cannot be read; and it writes nothing to the API
\* server.
C27_ClassBindingMapper ==
  [][requests'.kind = "classBinding" =>
       /\ cluster' = cluster
       /\ ClassBindingRequests']_vars

\* The mapper returned one request, for the one VM of the binding's
\* namespace that names the class, with a VM of the other namespace naming
\* the class too and a VM of this namespace naming another class.
C27_Witness ==
  /\ requests.kind = "classBinding"
  /\ requests.fails = "none"
  /\ requests.binding = [ns |-> "ns1", ref |-> "class1"]
  /\ requests.out = <<[ns |-> "ns1", name |-> "vm1"]>>
  /\ Len(cluster.vms) = 3
  /\ cluster.vms[2].className = "class2"
  /\ cluster.vms[3].className = "class1"

\* The image the VM names has an owner reference to the provider.
ImageOwnedBy(vm, clProvider) ==
  \E ownerRef \in cluster.images[vm.imageName] :
    /\ ownerRef.kind = "ContentLibraryProvider"
    /\ ownerRef.uid = clProvider.uid

\* The image the VM names is owned by a ContentLibraryProvider that has an
\* owner reference to the ContentSource the binding refers to.
OwnedThroughBoundSource(vm) ==
  \E p \in DOMAIN cluster.clProviders :
    /\ requests.binding.ref \in cluster.clProviders[p].owners
    /\ ImageOwnedBy(vm, cluster.clProviders[p])

\* The ContentSource the binding refers to is stored, the
\* ContentLibraryProvider its spec refers to is stored, no read failed, and
\* the image the VM names is owned by that provider.
OwnedThroughProviderRef(vm) ==
  /\ requests.fails = "none"
  /\ requests.binding.ref \in DOMAIN cluster.contentSources
  /\ LET p == cluster.contentSources[requests.binding.ref].providerRef IN
     /\ p \in DOMAIN cluster.clProviders
     /\ ImageOwnedBy(vm, cluster.clProviders[p])

\* C28 as the specification states it: the mapper called for a
\* ContentSourceBinding returns one request for each stored VM of the
\* binding's namespace whose image is owned by a ContentLibraryProvider
\* owned by the bound ContentSource, and none for any other VM.
C28_RequestsFollowOwnership ==
  requests.kind = "csBinding" =>
    /\ OnlyStoredVMs
    /\ \A vm \in StoredVMs :
         Count(requests.out, KeyOf(vm)) =
           IF vm.ns = requests.binding.ns /\ OwnedThroughBoundSource(vm)
           THEN 1 ELSE 0

\* C28: the mapper called for a ContentSourceBinding returns one request for
\* each stored VM of the binding's namespace whose image has an owner
\* reference to the ContentLibraryProvider that the spec of the bound
\* ContentSource refers to, and none for any other VM; it returns none at
\* all if the ContentSource, the provider, the images or the VMs cannot be
\* read.
C28_RequestsFollowProviderRef ==
  requests.kind = "csBinding" =>
    /\ OnlyStoredVMs
    /\ \A vm \in StoredVMs :
         Count(requests.out, KeyOf(vm)) =
           IF vm.ns = requests.binding.ns /\ OwnedThroughProviderRef(vm)
           THEN 1 ELSE 0

\* The mapper returned one request, for the VM of the binding's namespace
\* whose image the provider owns; a VM of the other namespace names the same
\* image and a VM of this namespace names an image the provider does not
\* own.
C28_Witness ==
  /\ requests.kind = "csBinding"
  /\ requests.fails = "none"
  /\ requests.binding = [ns |-> "ns1", ref |-> ContentSourceName]
  /\ cluster.contentSources[ContentSourceName].providerRef = "clp1"
  /\ requests.out = <<[ns |-> "ns1", name |-> "vm1"]>>
  /\ Len(cluster.vms) = 3
  /\ cluster.vms[2].imageName = "img2"
  /\ cluster.vms[3].imageName = "img1"

\* The selected VMs that qualify for the Endpoints in the pass that just
\* returned: no deletion timestamp, an IP, a host, and no probe or a TCP
\* probe whose port the VM has and whose connection was made.
PassedProbe(vm, answer) ==
  \/ vm.probe.action = "none"
  \/ /\ vm.probe.action = "tcpSocket"
     /\ answer = "ok"
     /\ \/ vm.probe.port.type = "Int"
        \/ \E i \in 1 .. Len(vm.ports) :
             /\ vm.ports[i].name = vm.probe.port.strVal
             /\ vm.ports[i].protocol = "TCP"

Qualifying ==
  {i \in 1 .. Len(svcLast.vms) :
     /\ ~svcLast.vms[i].deleting
     /\ svcLast.vms[i].vmIp # ""
     /\ svcLast.vms[i].host # ""
     /\ PassedProbe(svcLast.vms[i], svcLast.dial[i])}

\* The address entries of the subsets: the subset and the place in it.
AddressEntries(subsets) ==
  UNION {{<<i, j>> : j \in 1 .. Len(subsets[i].addresses)} :
           i \in 1 .. Len(subsets)}

\* The pass that just returned has recomputed the subsets.
Recomputed == svcLast.kind = "normal" /\ svcLast.work.probed

\* Every address of the recomputed subsets is the IP of a qualifying VM, and
\* the Endpoints are stored with these subsets unless their read or write
\* failed.
AddressesQualify ==
  Recomputed =>
    /\ \A e \in AddressEntries(svcLast.work.subsets) :
         \E i \in Qualifying :
           svcLast.work.subsets[e[1]].addresses[e[2]].ip = svcLast.vms[i].vmIp
    /\ svcLast.err \notin {"getEndpoints", "writeEndpoints"} =>
         svc.endpoints = [present |-> TRUE, subsets |-> svcLast.work.subsets]

\* Two VMs are selected, one with no IP and one that qualifies.
OneWithoutIPOneReachable ==
  /\ Recomputed
  /\ Len(svcLast.vms) = 2
  /\ Cardinality(Qualifying) = 1
  /\ \E i \in 1 .. 2 : i \notin Qualifying /\ svcLast.vms[i].vmIp = ""

\* C29 as stated: every address of the recomputed subsets belongs to a
\* selected VM that is not being deleted, has an IP and a host and passed
\* its probe or has none; and with two selected VMs, one without IP and one
\* reachable, the Endpoints hold exactly one address entry.
C29_OneAddressEntry ==
  /\ AddressesQualify
  /\ OneWithoutIPOneReachable =>
       Cardinality(AddressEntries(svcLast.work.subsets)) = 1

\* C29 as the code has it: every address of the recomputed subsets belongs
\* to a selected VM that is not being deleted, has an IP and a host and
\* passed its probe or has none; and with two selected VMs, one without IP
\* and one reachable, the Endpoints hold one subset for each port of the
\* Service, each with one address entry, the reachable VM's.
C29_OneAddressEntryPerPort ==
  /\ AddressesQualify
  /\ OneWithoutIPOneReachable =>
       /\ Len(svcLast.work.subsets) = Len(svcLast.service.ports)
       /\ \A k \in 1 .. Len(svcLast.work.subsets) :
            /\ Len(svcLast.work.subsets[k].addresses) = 1
            /\ \E i \in Qualifying :
                 svcLast.work.subsets[k].addresses[1].ip = svcLast.vms[i].vmIp
            /\ Len(svcLast.work.subsets[k].ports) = 1
            /\ svcLast.work.subsets[k].ports[1].name =
                 svcLast.service.ports[k].name

\* A Service of two ports, two selected VMs, one without IP and one that
\* passed its TCP probe: two address entries were written.
C29_Witness ==
  /\ OneWithoutIPOneReachable
  /\ \E i \in Qualifying : svcLast.vms[i].probe.action = "tcpSocket"
  /\ Len(svcLast.service.ports) = 2
  /\ svcLast.work.write = "create"
  /\ Cardinality(AddressEntries(svc.endpoints.subsets)) = 2

\* The selected VMs that reached the probe in the pass that just returned,
\* and those of them whose probe failed.
Probed ==
  {i \in 1 .. Len(svcLast.vms) :
     /\ ~svcLast.vms[i].deleting
     /\ svcLast.vms[i].vmIp # ""
     /\ svcLast.vms[i].host # ""}

ProbeFailed == Probed \ Qualifying

\* The read of the Endpoints or the write the pass issued for them failed.
EndpointsCallFailed ==
  \/ svcLast.fails = "getEndpoints"
  \/ svcLast.fails = "writeEndpoints" /\ svcLast.work.write # "none"

\* What Reconcile returns for the delayed-requeue signal, and that it
\* returns no delay with an error.
DelayedRequeue == svcLast.err = "nil" /\ svcLast.requeueAfter = 10

NoDelayWithError ==
  svcLast.kind # "none" =>
    /\ svcLast.requeueAfter \in {0, 10}
    /\ svcLast.err # "nil" => svcLast.requeueAfter = 0

\* C30 as stated: when the probe fails for every selected VM that reached
\* it, and one did, Reconcile returns no error and RequeueAfter = 10
\* seconds; any other error is returned with no requeue delay.
C30_RequeueWhenProbedAllFail ==
  /\ NoDelayWithError
  /\ (Recomputed /\ Probed # {} /\ ProbeFailed = Probed) => DelayedRequeue

\* C30 as the code has it: Reconcile returns no error and RequeueAfter = 10
\* seconds exactly when the probe failed for every VM of the selected list,
\* the list is not empty, and neither the read nor the write of the
\* Endpoints failed; any error is returned with no requeue delay.
C30_RequeueWhenSelectedAllFail ==
  /\ NoDelayWithError
  /\ (Recomputed /\ ~EndpointsCallFailed) =>
       (DelayedRequeue <=>
          /\ Len(svcLast.vms) > 0
          /\ ProbeFailed = 1 .. Len(svcLast.vms))
  /\ (svcLast.kind # "none" /\ ~(Recomputed /\ ~EndpointsCallFailed)) =>
       svcLast.requeueAfter = 0

\* Two selected VMs both failed the probe, one on its connection and one
\* with a probe of no action, and Reconcile returned the 10 seconds.
C30_Witness ==
  /\ Recomputed
  /\ Len(svcLast.vms) = 2
  /\ ProbeFailed = {1, 2}
  /\ svcLast.vms[1].probe.action = "tcpSocket"
  /\ svcLast.vms[2].probe.action = "unknown"
  /\ svcLast.work.probeFailureCount = 2
  /\ DelayedRequeue

\* The probe failed for every VM of the selected list, and one is selected.
AllSelectedFailed ==
  /\ Recomputed
  /\ Len(svcLast.vms) > 0
  /\ ProbeFailed = 1 .. Len(svcLast.vms)

\* C31 as stated: when every selected VM fails its probe the pass asks for
\* the retry after 10 seconds and issues no create or update of the
\* Endpoints, which stay as they were.
C31_AllFailedLeavesEndpoints ==
  AllSelectedFailed =>
    /\ DelayedRequeue
    /\ svcLast.work.write = "none"
    /\ svc.endpoints = svcLast.before

\* C31 as the code has it: when every selected VM fails its probe the
\* recomputed subsets are empty; the Endpoints are left alone only if they
\* exist with no subsets (or their read failed), are created empty if they
\* do not exist and are updated to empty if they held subsets; the pass
\* asks for the retry after 10 seconds unless the read or the write of the
\* Endpoints failed.
C31_AllFailedEmptiesEndpoints ==
  AllSelectedFailed =>
    /\ svcLast.work.subsets = <<>>
    /\ svcLast.work.write =
         IF svcLast.fails = "getEndpoints" THEN "none"
         ELSE IF ~svcLast.before.present THEN "create"
         ELSE IF svcLast.before.subsets # <<>> THEN "update"
         ELSE "none"
    /\ svc.endpoints =
         IF svcLast.work.write = "none" \/ svcLast.fails = "writeEndpoints"
         THEN svcLast.before
         ELSE [present |-> TRUE, subsets |-> <<>>]
    /\ DelayedRequeue <=> ~EndpointsCallFailed

\* Both selected VMs failed the probe while the Endpoints held subsets: the
\* Endpoints were updated to none and the retry after 10 seconds asked for.
C31_Witness ==
  /\ AllSelectedFailed
  /\ Len(svcLast.vms) = 2
  /\ svcLast.before.present
  /\ svcLast.before.subsets # <<>>
  /\ svcLast.work.write = "update"
  /\ svc.endpoints.subsets = <<>>
  /\ DelayedRequeue

\* C32: when the Endpoints were read, no create or update is issued if they
\* exist with subsets equal to the recomputed ones; otherwise exactly one
\* write is issued, an update if they exist and a create if not, and if it
\* succeeds the Endpoints hold the recomputed subsets.
C32_WriteOnlyOnChange ==
  (Recomputed /\ svcLast.fails # "getEndpoints") =>
    /\ svcLast.work.write =
         IF ~svcLast.before.present THEN "create"
         ELSE IF svcLast.before.subsets = svcLast.work.subsets THEN "none"
         ELSE "update"
    /\ svc.endpoints =
         IF svcLast.work.write = "none" \/ svcLast.fails = "writeEndpoints"
         THEN svcLast.before
         ELSE [present |-> TRUE, subsets |-> svcLast.work.subsets]

\* The Endpoints existed with the subsets the pass recomputed, and these are
\* not empty: nothing was written.
C32_Witness ==
  /\ Recomputed
  /\ svcLast.fails = "none"
  /\ svcLast.before.present
  /\ svcLast.work.subsets # <<>>
  /\ svcLast.before.subsets = svcLast.work.subsets
  /\ svcLast.work.write = "none"
  /\ svc.endpoints = svcLast.before

\* The pass that just returned issued an update of the Service.
ServiceUpdated ==
  svcLast.kind = "normal" /\ svcLast.work.serviceWrite = "update"

\* The places of the Service before the pass that have the port number n.
CurrentWithPort(n) ==
  {i \in 1 .. Len(svcLast.current.ports) : svcLast.current.ports[i].port = n}

\* C33: the Service an update is issued with has the ports of the
\* VirtualMachineService; each of them whose port number the existing
\* Service has carries the existing node port of that number, and each
\* other one carries no node port.
C33_NodePortsKept ==
  ServiceUpdated =>
    /\ Len(svcLast.work.sent.ports) = Len(svc.vmService.ports)
    /\ \A idx \in 1 .. Len(svcLast.work.sent.ports) :
         LET p == svcLast.work.sent.ports[idx] IN
         /\ p.port = svc.vmService.ports[idx].port
         /\ p.name = svc.vmService.ports[idx].name
         /\ IF CurrentWithPort(p.port) = {}
            THEN p.nodePort = 0
            ELSE \A i \in CurrentWithPort(p.port) :
                   p.nodePort = svcLast.current.ports[i].nodePort

\* An update that kept an allocated node port for one port and sent another
\* port without one.
C33_Witness ==
  /\ ServiceUpdated
  /\ svcLast.fails = "none"
  /\ \E idx \in 1 .. Len(svcLast.work.sent.ports) :
       /\ CurrentWithPort(svcLast.work.sent.ports[idx].port) # {}
       /\ svcLast.work.sent.ports[idx].nodePort # 0
  /\ \E idx \in 1 .. Len(svcLast.work.sent.ports) :
       /\ CurrentWithPort(svcLast.work.sent.ports[idx].port) = {}
       /\ svcLast.work.sent.ports[idx].nodePort = 0

\* C34: a worker holds the mutex exactly between its Lock and the Unlock
\* that follows the comparison, the increment or the decrement of the
\* counter: never while its create or update call is in progress, while it
\* waits for the mutex, or when its pass has returned; and a pass of the VM
\* that has just returned made its provider and store calls without it.
C34_MutexOnlyAroundCounter ==
  /\ mutex \in {0} \cup Workers
  /\ \A w \in Workers :
       /\ pc[w] \in {"check", "inc", "dec"} <=> mutex = w
       /\ pc[w] \in {"idle", "lock", "create", "update", "rlock"} => mutex # w
  /\ last # NoLast => mutex # VMWorker /\ pc[VMWorker] = "idle"

\* Another pass holds the mutex for its decrement while the update call of
\* the VM's pass is in progress.
C34_Witness ==
  /\ pc[VMWorker] = "update"
  /\ \E w \in Workers \ {VMWorker} : mutex = w /\ pc[w] = "dec"

\* The pass that just returned ran createOrUpdateVM: a normal pass that
\* loaded the VM with its finalizer.
CreateOrUpdatePass ==
  last.kind = "normal" /\ ContainsFinalizer(last.before, finalizerName)

\* The errors createOrUpdateVM returns once the prerequisites are resolved.
ProviderErrors == {"exists", "rpDeleting", "create", "update"}

\* The errors createOrUpdateVM returns before line 668.
BeforeMarkTrue == ResolutionErrors \cup {"newUUID"}

\* C35: a createOrUpdateVM pass marked PrereqsReady true exactly if no
\* prerequisite failed to resolve (and the instance storage volumes, if
\* any were to be added, could be named), and then it went on to the
\* existence query; the condition is true on the VM whatever the existence
\* query, the create call or the update call returned, and on the stored
\* object once the patch is stored.
C35_PrereqsReadyBeforeExists ==
  CreateOrUpdatePass =>
    /\ last.err \in {"nil"} \cup BeforeMarkTrue \cup ProviderErrors
    /\ last.marked = "True" <=> last.err \notin BeforeMarkTrue
    /\ last.marked = "True" <=> "exists" \in last.calls
    /\ last.marked = "True" =>
         /\ last.vm.prereqs = "True"
         /\ last.patch = "ok" => store.prereqs = "True"

\* A pass loaded the VM with PrereqsReady not yet true, resolved the
\* prerequisites, failed on the existence query and left the condition
\* true on the stored object.
C35_Witness ==
  /\ CreateOrUpdatePass
  /\ last.before.prereqs # "True"
  /\ last.err = "exists"
  /\ last.marked = "True"
  /\ last.patch = "ok"
  /\ store.prereqs = "True"

\* The numbers of instance volumes a class declares.
ClassVolumes == {env.classVolumes : env \in Envs}

\* C36: a pass appends instance storage volumes to the spec exactly if the
\* class was resolved, the feature is enabled, the phase is not Created,
\* the spec holds none yet, the class declares some and they could be
\* named, and then it appends the class's volumes; so the spec as stored
\* and as any pass holds it has the volumes of a class once or not at all.
C36_InstanceStorageAddedOnce ==
  /\ NormalStart =>
       \A env \in Envs, e \in ExistsAnswers :
         LET r == NormalPass(env, e) IN
         /\ r.c.vm.isVolumes # store.isVolumes <=>
              /\ r.c.err \notin {"getClass", "listClassBindings",
                                  "noClassBinding", "newUUID"}
              /\ env.fssInstanceStorage
              /\ store.phase # Created
              /\ store.isVolumes = 0
              /\ env.classVolumes > 0
         /\ r.c.vm.isVolumes \in {store.isVolumes, env.classVolumes}
  /\ store.isVolumes \in {0} \cup ClassVolumes
  /\ ctx[VMWorker].vm.isVolumes \in {0} \cup ClassVolumes
  /\ last.vm.isVolumes \in {0} \cup ClassVolumes

\* The spec holds instance storage volumes, stored by an earlier pass, the
\* VM is not yet Created, and a further pass is about to run.
C36_Witness ==
  /\ NormalStart
  /\ store.isVolumes \in ClassVolumes \ {0}
  /\ store.phase = Creating

\* C37: a pass takes a slot only by the increment and gives it up only by
\* the decrement, in the step in which it returns, so once for each slot
\* taken; until then it holds the slot through the create call, the update
\* call and the wait for the mutex; the counter moves with the slots only;
\* the VM's pass that returns having held a slot returns from the decrement
\* whatever ended it (the resource policy being deleted, the create call
\* failing, placement pending, the update call failing or succeeding);
\* and with every worker idle the counter is 0.
C37_SlotReleasedOnce ==
  [][/\ \A w \in Workers :
          /\ (~ctx[w].slot /\ ctx'[w].slot) =>
               /\ pc[w] = "inc"
               /\ NumVMsBeingCreatedOnProvider'
                    = NumVMsBeingCreatedOnProvider + 1
          /\ (ctx[w].slot /\ ~ctx'[w].slot) =>
               /\ pc[w] = "dec"
               /\ pc'[w] = "idle"
               /\ NumVMsBeingCreatedOnProvider'
                    = NumVMsBeingCreatedOnProvider - 1
          /\ ctx'[w].slot => pc'[w] \in {"create", "update", "rlock", "dec"}
          /\ pc'[w] \in {"create", "rlock", "dec"} => ctx'[w].slot
     /\ NumVMsBeingCreatedOnProvider' # NumVMsBeingCreatedOnProvider =>
          \E w \in Workers : ctx'[w].slot # ctx[w].slot
     /\ last'.slot =>
          /\ pc[VMWorker] = "dec"
          /\ ctx[VMWorker].slot
          /\ last'.err \in {"nil", "rpDeleting", "create", "update"}
     /\ (\A w \in Workers : pc'[w] = "idle") =>
          NumVMsBeingCreatedOnProvider' = 0]_vars

\* The VM's pass took a slot, created the VM, failed on the update call and
\* has returned: no worker is busy and the counter is 0.
C37_Witness ==
  /\ last.kind = "normal"
  /\ last.slot
  /\ last.err = "update"
  /\ "create" \in last.calls
  /\ \A w \in Workers : pc[w] = "idle"
  /\ NumVMsBeingCreatedOnProvider = 0

\* C38 as stated: a VM deferred for lack of a slot, whose request keeps
\* being redelivered and whose prerequisites resolve, is in the end given
\* a slot and its create call is made (unless it is deleted, paused or
\* found on the provider first).
C38_DeferredLeadsToCreate ==
  last.deferred ~>
    \/ pc[VMWorker] = "create"
    \/ ~store.present
    \/ store.deletionTimestamp
    \/ store.pause
    \/ provider

\* C39 as stated: a pass adds the VM to the prober manager only if it made
\* the provider update call and the call succeeded; a pass deferred for
\* lack of a slot does not add it.
C39_RegisteredOnlyAfterUpdate ==
  /\ last.prober = "add" =>
       /\ "update" \in last.calls
       /\ last.err = "nil"
  /\ last.deferred => last.prober # "add"

\* C40: a pass that has taken a slot for a VM the provider does not have,
\* and whose resource policy is being deleted, makes no create or update
\* call: it has emitted the Create event, its phase is Creating and it is on
\* its way to the decrement; when it has returned it returned that error
\* with no requeue delay, the VM is not on the provider nor added to the
\* prober manager, the slot is given back, and a patch that went through
\* stored the phase Creating.
C40_DeletingPolicyStopsCreate ==
  /\ \A w \in Workers :
       (ctx[w].slot /\ ctx[w].rpDeleting) =>
         /\ pc[w] \in {"rlock", "dec"}
         /\ ctx[w].err = "rpDeleting"
         /\ ctx[w].calls \cap {"create", "update"} = {}
         /\ "Create" \in ctx[w].events
         /\ ctx[w].vm.phase = Creating
  /\ last.err = "rpDeleting" =>
       /\ last.kind = "normal"
       /\ last.reterr = "rpDeleting"
       /\ last.requeueAfter = 0
       /\ last.calls \cap {"create", "update"} = {}
       /\ "exists" \in last.calls
       /\ "Create" \in last.events
       /\ last.vm.phase = Creating
       /\ last.prober = "none"
       /\ last.slot
       /\ ~provider
       /\ pc[VMWorker] = "idle"
       /\ ~ctx[VMWorker].slot
       /\ NumVMsBeingCreatedOnProvider
            = Cardinality({w \in Workers : ctx[w].slot})
       /\ last.patch = "ok" => store.phase = Creating

\* The VM's pass took a slot, found the resource policy being deleted and
\* has returned the error; its patch went through and the counter is 0.
C40_Witness ==
  /\ last.kind = "normal"
  /\ last.err = "rpDeleting"
  /\ last.slot
  /\ last.patch = "ok"
  /\ store.phase = Creating
  /\ NumVMsBeingCreatedOnProvider = 0

====
